---- MODULE Spec2Model ----
(***************************************************************************)
(* A model of swh-loader-cvs: the changeset clusterer (rlog.py,            *)
(* RlogConv._process_rlog_entry), and the visit of loader.py (CvsLoader:    *)
(* prepare, fetch_data, store_data and the generators they drive) against  *)
(* a content-addressed storage.                                           *)
(*                                                                         *)
(* cvs2gitdump (ChangeSetKey, CvsConv, RcsKeywords, file_path) and          *)
(* rcsparse belong to the repository but are not among the sources; what   *)
(* the model needs of them is taken from the specification and marked so.  *)
(***************************************************************************)
EXTENDS Integers, Sequences, FiniteSets, TLC

(***************************************************************************)
(* Bounds of the model and program constants                               *)
(***************************************************************************)

\* timestamps are multiples of TimeStep, from 0 to MaxTick * TimeStep
MaxTick == 3

TimeStep == 150

\* number of visits (loader objects run against the one storage)
MaxVisits == 2

\* loader.py:22 imports it from cvs2gitdump; the specification gives 300 seconds
CHANGESET_FUZZ_SEC == 300

DEFAULT_BRANCH == "HEAD"

Times == {t * TimeStep : t \in 0..MaxTick}

Paths == {"a", "b"}

Authors == {"alice", "bob"}

\* log messages; "" is the empty message, which Python's `not logmsg` takes as absent
Logs == {"", "fix"}

\* the commitid slot of a revision tuple that carries none
None == "None"

(***************************************************************************)
(* Revision numbers are sequences of naturals (1.2 is <<1, 2>>).  The code *)
(* compares them as strings; for single-digit components, which is what    *)
(* the model draws, that is the lexicographic order of the sequences, a    *)
(* proper prefix coming first.                                             *)
(***************************************************************************)
RECURSIVE RevLess(_, _)
RevLess(r, s) ==
    IF r = <<>> THEN s # <<>>
    ELSE IF s = <<>> THEN FALSE
    ELSE IF Head(r) # Head(s) THEN Head(r) < Head(s)
    ELSE RevLess(Tail(r), Tail(s))

Max2(x, y) == IF x >= y THEN x ELSE y

Min2(x, y) == IF x <= y THEN x ELSE y

(***************************************************************************)
(* ChangeSetKey (cvs2gitdump, modelled from the specification, section 3   *)
(* and section 4.5 step 4): branch, author, log, commit-id, a              *)
(* min_time/max_time pair and the file revisions put into it.              *)
(***************************************************************************)
ChangeSetKey(branch, author, timestamp, log, commitid) ==
    [branch |-> branch, author |-> author, log |-> log, commitid |-> commitid,
     min_time |-> timestamp, max_time |-> timestamp, revs |-> <<>>]

put_file(a, path, rev, state) ==
    [a EXCEPT !.revs = Append(@, [path |-> path, rev |-> rev, state |-> state])]

\* equality: the discrete fields match and the intervals are within fuzz
KeyEq(x, y) ==
    /\ x.branch = y.branch
    /\ x.author = y.author
    /\ x.log = y.log
    /\ x.commitid = y.commitid
    /\ ~(y.min_time - x.max_time > CHANGESET_FUZZ_SEC)
    /\ ~(x.min_time - y.max_time > CHANGESET_FUZZ_SEC)

\* c.merge(a): widen c's interval and append a's file revisions
merge(c, a) ==
    [c EXCEPT !.max_time = Max2(c.max_time, a.max_time),
              !.min_time = Min2(c.min_time, a.min_time),
              !.revs = c.revs \o a.revs]

\* a total order on the strings the model uses, for the order's tie-breaks
StrOrder == <<"", "HEAD", "None", "VENDOR", "alice", "bob", "c1", "c2", "fix">>

StrRank(s) == CHOOSE i \in 1..Len(StrOrder) : StrOrder[i] = s

\* ordering: max_time ascending, ties broken on (branch, author, log)
KeyLess(x, y) ==
    \/ x.max_time < y.max_time
    \/ /\ x.max_time = y.max_time
       /\ \/ StrRank(x.branch) < StrRank(y.branch)
          \/ /\ x.branch = y.branch
             /\ \/ StrRank(x.author) < StrRank(y.author)
                \/ /\ x.author = y.author
                   /\ StrRank(x.log) < StrRank(y.log)

(***************************************************************************)
(* RlogConv._process_rlog_entry, rlog.py:70-145                            *)
(***************************************************************************)

\* a table that holds a label for every branch number
branches_of_any(b) ==
    IF b = <<1>> THEN "HEAD"
    ELSE IF b = <<1, 1, 1>> THEN "VENDOR"
    ELSE "BRANCH"

\* rlog.py:73, with no symbolic names in the header: the branch label of a
\* branch number, or KeyError
branches(b) ==
    IF b = <<1>> THEN "HEAD"
    ELSE IF b = <<1, 1, 1>> THEN "VENDOR"
    ELSE "KeyError"

\* rlog.py:85-89: by revision descending, then (stably) by time
RevBefore(v, w) ==
    \/ v.time < w.time
    \/ v.time = w.time /\ RevLess(w.rev, v.rev)

RECURSIVE sorted_revs(_)
sorted_revs(S) ==
    IF S = {} THEN <<>>
    ELSE LET v == CHOOSE x \in S : \A y \in S \ {x} : RevBefore(x, y)
         IN <<v>> \o sorted_revs(S \ {v})

\* rlog.py:90-92
FilterInit == [novendor |-> FALSE, have_initial_revision |-> FALSE,
               last_vendor_status |-> None]

\* the pass that lets 1.1 through after 1.1.1.1
filter_step_two_initial(st, v) ==
    LET r == v.rev IN
    IF r = <<1, 1, 1, 1>> THEN
        IF st.have_initial_revision \/ v.state = "dead"
        THEN [emit |-> FALSE, st |-> st]
        ELSE [emit |-> TRUE,
              st |-> [st EXCEPT !.last_vendor_status = v.state,
                                !.have_initial_revision = TRUE]]
    ELSE IF Len(r) = 4 /\ SubSeq(r, 1, 3) = <<1, 1, 1>> THEN
        IF st.novendor
        THEN [emit |-> FALSE, st |-> st]
        ELSE [emit |-> TRUE, st |-> [st EXCEPT !.last_vendor_status = v.state]]
    ELSE IF Len(r) = 2 THEN
        IF r = <<1, 1>> /\ v.state = "dead"
        THEN [emit |-> FALSE, st |-> st]
        ELSE LET st1 == IF r = <<1, 1>>
                        THEN [st EXCEPT !.have_initial_revision = TRUE]
                        ELSE IF r[1] = 1
                        THEN [st EXCEPT !.novendor = TRUE]
                        ELSE st
             IN [emit |-> ~(st.last_vendor_status = "dead" /\ v.state = "dead"),
                 st |-> [st1 EXCEPT !.last_vendor_status = None]]
    ELSE [emit |-> FALSE, st |-> st]

\* the pass that never looks at novendor
filter_step_vendor_always(st, v) ==
    LET r == v.rev IN
    IF r = <<1, 1, 1, 1>> THEN
        IF st.have_initial_revision \/ v.state = "dead"
        THEN [emit |-> FALSE, st |-> st]
        ELSE [emit |-> TRUE,
              st |-> [st EXCEPT !.last_vendor_status = v.state,
                                !.have_initial_revision = TRUE]]
    ELSE IF Len(r) = 4 /\ SubSeq(r, 1, 3) = <<1, 1, 1>> THEN
        IF FALSE
        THEN [emit |-> FALSE, st |-> st]
        ELSE [emit |-> TRUE, st |-> [st EXCEPT !.last_vendor_status = v.state]]
    ELSE IF Len(r) = 2 THEN
        IF r = <<1, 1>> /\ (st.have_initial_revision \/ v.state = "dead")
        THEN [emit |-> FALSE, st |-> st]
        ELSE LET st1 == IF r = <<1, 1>>
                        THEN [st EXCEPT !.have_initial_revision = TRUE]
                        ELSE IF r[1] = 1
                        THEN [st EXCEPT !.novendor = TRUE]
                        ELSE st
             IN [emit |-> ~(st.last_vendor_status = "dead" /\ v.state = "dead"),
                 st |-> [st1 EXCEPT !.last_vendor_status = None]]
    ELSE [emit |-> FALSE, st |-> st]

\* rlog.py:94-127: one pass of the loop over v, up to the `continue`s;
\* emit says whether the revision goes on to a changeset
filter_step(st, v) ==
    LET r == v.rev IN
    IF r = <<1, 1, 1, 1>> THEN
        IF st.have_initial_revision \/ v.state = "dead"
        THEN [emit |-> FALSE, st |-> st]
        ELSE [emit |-> TRUE,
              st |-> [st EXCEPT !.last_vendor_status = v.state,
                                !.have_initial_revision = TRUE]]
    ELSE IF Len(r) = 4 /\ SubSeq(r, 1, 3) = <<1, 1, 1>> THEN
        IF st.novendor
        THEN [emit |-> FALSE, st |-> st]
        ELSE [emit |-> TRUE, st |-> [st EXCEPT !.last_vendor_status = v.state]]
    ELSE IF Len(r) = 2 THEN
        IF r = <<1, 1>> /\ (st.have_initial_revision \/ v.state = "dead")
        THEN [emit |-> FALSE, st |-> st]
        ELSE LET st1 == IF r = <<1, 1>>
                        THEN [st EXCEPT !.have_initial_revision = TRUE]
                        ELSE IF r[1] = 1
                        THEN [st EXCEPT !.novendor = TRUE]
                        ELSE st
             IN [emit |-> ~(st.last_vendor_status = "dead" /\ v.state = "dead"),
                 st |-> [st1 EXCEPT !.last_vendor_status = None]]
    ELSE [emit |-> FALSE, st |-> st]

\* the revisions of one file that pass the filter, in the order of the loop
RECURSIVE emitted_revs(_, _)
emitted_revs(revs, st) ==
    IF revs = <<>> THEN <<>>
    ELSE LET f == filter_step(st, Head(revs))
         IN (IF f.emit THEN <<Head(revs)>> ELSE <<>>)
            \o emitted_revs(Tail(revs), f.st)

\* the loop of rlog.py:136-141 taken as an `if`: one merge, without looking again
merge_once(a, cs) ==
    LET eq == {c \in cs : KeyEq(c, a)}
    IN IF eq = {} THEN {cs \cup {a}}
       ELSE {(cs \ {c}) \cup {merge(c, a)} : c \in eq}

\* rlog.py:136-141: while a is in self.changesets, take the changeset found
\* out, merge a into it and look again; then store.  The changeset a dict
\* lookup finds among several equal ones depends on the hash table: each is
\* possible, and the result is the set of the possible dicts.
RECURSIVE merge_loop(_, _)
merge_loop(a, cs) ==
    LET eq == {c \in cs : KeyEq(c, a)}
    IN IF eq = {} THEN {cs \cup {a}}
       ELSE UNION {merge_loop(merge(c, a), cs \ {c}) : c \in eq}

\* rlog.py:129-135: the key of one file revision
revision_key(path, v) ==
    put_file(ChangeSetKey(branches(SubSeq(v.rev, 1, Len(v.rev) - 1)),
                          v.author, v.time, v.log, v.commitid),
             path, v.rev, v.state)

\* rlog.py:129-141 for the emitted revisions of one file, from each dict in css
RECURSIVE put_revs(_, _, _)
put_revs(path, revs, css) ==
    IF revs = <<>> THEN css
    ELSE put_revs(path, Tail(revs),
                  UNION {merge_loop(revision_key(path, Head(revs)), cs) : cs \in css})

process_rlog_entry(path, revisions, css) ==
    put_revs(path, emitted_revs(sorted_revs(revisions), FilterInit), css)

(***************************************************************************)
(* The repository a visit reads: a set of file revisions, at most one per  *)
(* (path, rev).  kw says that the text of the revision holds an $Id$       *)
(* keyword.                                                                *)
(***************************************************************************)
RevOptions(path, rev, authors, states, kws) ==
    {[path |-> path, rev |-> rev, time |-> t, author |-> au, log |-> lg,
      state |-> st, commitid |-> None, kw |-> kw] :
        t \in Times, au \in authors, lg \in Logs, st \in states, kw \in kws}

Optional(S) == {{}} \cup {{v} : v \in S}

\* a.1.1 (by the first author), a.1.2 (which may be dead) and b.1.1, each
\* present or not
Repos(kws) ==
    {s1 \cup s2 \cup s3 :
        s1 \in Optional(RevOptions("a", <<1, 1>>, {"alice"}, {"Exp"}, kws)),
        s2 \in Optional(RevOptions("a", <<1, 2>>, Authors, {"Exp", "dead"}, {FALSE})),
        s3 \in Optional(RevOptions("b", <<1, 1>>, Authors, {"Exp"}, {FALSE}))}

\* revisions that carry a commitid, all by the first author with the one log
RevOptionsCid(path, rev, cids) ==
    {[path |-> path, rev |-> rev, time |-> t, author |-> "alice", log |-> "fix",
      state |-> "Exp", commitid |-> cid, kw |-> FALSE] :
        t \in Times, cid \in cids}

\* a.1.1, a.1.2 and b.1.1 of commits c1 or c2, each present or not
ReposCid ==
    {s1 \cup s2 \cup s3 :
        s1 \in Optional(RevOptionsCid("a", <<1, 1>>, {"c1"})),
        s2 \in Optional(RevOptionsCid("a", <<1, 2>>, {"c1", "c2"})),
        s3 \in Optional(RevOptionsCid("b", <<1, 1>>, {"c1", "c2"}))}

VARIABLES
    repo,            \* the CVS repository (never changed by a visit)
    storage,         \* the storage: the objects it holds, by kind
    sink_log,        \* the calls this visit made on the storage, in order
    visit,           \* the number of the visit
    scheme,          \* the scheme of the loader's URL
    pc,              \* where BaseLoader.load is in its loop
    more_data,       \* what the last fetch_data returned
    cvs_changesets,  \* self.cvs_changesets
    gen,             \* self.swh_revision_gen: the index of the next changeset, alive
    worktree,        \* the files under self.worktree_path
    offsets,         \* self.rlog.offsets, as the set of its (path, rev)
    last_revision,   \* self._last_revision: <<>> for None
    load_status,     \* self._load_status
    pending,         \* self._contents, self._directories, self._revisions
    snapshot,        \* self.snapshot: <<>> for None
    computed,        \* history: the revisions compute_swh_revision built in this visit
    results,         \* history: the outcome of each visit that ended
    cl_todo,         \* clusterer alone: the file revisions not yet put
    cl_changesets,   \* clusterer alone: self.changesets of RlogConv
    url_path,        \* whether the origin URL has a path
    cvsroot_path,    \* whether the loader was given a cvsroot_path
    tempdirs,        \* the temporary directories that exist: <<visit, name>>
    served,          \* wire: what the server answers to each request
    wire_in,         \* wire: the bytes the server has sent that no recv returned yet
    conn,            \* wire: linebuffer, incomplete_line and the conn_read_line call
    client,          \* wire: the position and the locals of the CVSClient method
    sent,            \* wire: the requests the client has written to the server
    flt,             \* filter alone: the loop of _process_rlog_entry over one file
    rlog_fp,         \* rlog parser: the rlog file, its lines and its position
    rlconv           \* rlog parser: the RlogConv and the locals of parse_rlog

vars == <<repo, storage, sink_log, visit, scheme, pc, more_data, cvs_changesets,
          gen, worktree, offsets, last_revision, load_status, pending, snapshot,
          computed, results, cl_todo, cl_changesets, url_path, cvsroot_path,
          tempdirs, served, wire_in, conn, client, sent, flt, rlog_fp, rlconv>>

\* the variables of the loader and of the clusterer
loadervars == <<repo, storage, sink_log, visit, scheme, pc, more_data,
                cvs_changesets, gen, worktree, offsets, last_revision,
                load_status, pending, snapshot, computed, results, cl_todo,
                cl_changesets, url_path, cvsroot_path, tempdirs>>

\* the variables of the wire client
wirevars == <<served, wire_in, conn, client, sent>>

\* the variables of the filter alone and of the rlog parser
rlvars == <<flt, rlog_fp, rlconv>>

clvars == <<cl_todo, cl_changesets>>

\* what the loader is constructed with, the same for every visit
envvars == <<url_path, cvsroot_path>>

Schemes == {"file", "pserver"}

\* the schemes of the origin URLs tried: those above and one prepare does not know
UrlSchemes == Schemes \cup {"http"}

FilesOf(r) == {v.path : v \in r}

RevisionsOf(r, path) == {v \in r : v.path = path}

HasRev(path, rev) == \E v \in repo : v.path = path /\ v.rev = rev

RepoRev(path, rev) == CHOOSE v \in repo : v.path = path /\ v.rev = rev

\* the orders in which the files of a set can be met
RECURSIVE Orders(_)
Orders(S) ==
    IF S = {} THEN {<<>>}
    ELSE UNION {{<<x>> \o o : o \in Orders(S \ {x})} : x \in S}

(***************************************************************************)
(* prepare: the changesets of the repository, clustered and sorted         *)
(***************************************************************************)

\* rlog.py:395-406: the revision tuple of a parsed entry; its commitid slot is None
parse_log_entry(v) == [v EXCEPT !.commitid = None]

\* the records of the files are met in `order`; each goes through
\* _process_rlog_entry (rlog.py:173)
RECURSIVE cluster_files(_, _, _)
cluster_files(order, revs, css) ==
    IF order = <<>> THEN css
    ELSE cluster_files(Tail(order), revs,
             process_rlog_entry(Head(order), RevisionsOf(revs, Head(order)), css))

\* RlogConv.parse_rlog, rlog.py:147-173: the possible self.changesets
parse_rlog(order) ==
    cluster_files(order, {parse_log_entry(v) : v \in repo}, {{}})

\* rlog.py:161-172: `off` and `rev` are those of the last entry parsed for the
\* file, and only that entry's offset is recorded.  The server lists the
\* revisions of a file from the highest number down.
parse_rlog_offsets ==
    {<<p, (CHOOSE v \in RevisionsOf(repo, p) :
              \A w \in RevisionsOf(repo, p) \ {v} : RevLess(v.rev, w.rev)).rev>> :
        p \in FilesOf(repo)}

\* CvsConv.walk (cvs2gitdump, modelled from the specification, section 4.5):
\* the same clustering, of the deltas of the RCS files
CvsConv_walk(order) == cluster_files(order, repo, {{}})

\* sorted(changesets), loader.py:401 and 420: the lists Python's stable sort
\* can give under ChangeSetKey's order
sorted(cs) ==
    {s \in Orders(cs) :
        \A i \in 1..Len(s) : \A j \in 1..Len(s) : i < j => ~KeyLess(s[j], s[i])}

\* sorted left out: the changesets in the order the dict gives them
unsorted(cs) == Orders(cs)

(***************************************************************************)
(* The generators: one changeset applied to the working tree               *)
(***************************************************************************)

\* the text RCS stores for a revision
RawText(v) ==
    [text |-> <<v.path, v.rev>>, kw |-> IF v.kw THEN <<"$Id$">> ELSE <<>>]

\* RcsKeywords.expand_keyword (cvs2gitdump, modelled from the specification,
\* sections 4.2 and 8): $Id$ becomes $Id: file,v rev date author state $
expand_keyword(v) ==
    [text |-> <<v.path, v.rev>>,
     kw |-> IF v.kw
            THEN <<"$Id: ", v.path, v.rev, v.time, v.author, v.state, " $">>
            ELSE <<>>]

\* CVSClient.checkout, cvsclient.py:262-334: the request always carries
\* `Argument -kb` (line 277), so the server sends the text unexpanded
checkout(v) == RawText(v)

remove(wt, path) == [q \in DOMAIN wt \ {path} |-> wt[q]]

\* a write that leaves no other file in the tree
write_alone(wt, path, contents) == [q \in {path} |-> contents]

write(wt, path, contents) ==
    [q \in DOMAIN wt \cup {path} |-> IF q = path THEN contents ELSE wt[q]]

\* whether the lookup of a log message returns: rcsfile.getlog (rcsparse,
\* modelled from the specification: UnknownRevision when absent), and
\* RlogConv.getlog, rlog.py:175-179, a KeyError when no offset is recorded
getlog_returns(path, rev) ==
    IF scheme = "file" THEN HasRev(path, rev) ELSE <<path, rev>> \in offsets

getlog(path, rev) == RepoRev(path, rev).log

\* loader.py:152-178 and 199-225: the loop over k.revs from its i-th pass;
\* ok is FALSE when a pass raised
\* the loop over k.revs with a pass that raises taken for one that returns
RECURSIVE apply_revs_ignores_failure(_, _, _, _)
apply_revs_ignores_failure(k, i, logmsg, wt) ==
    IF i > Len(k.revs) THEN [ok |-> TRUE, logmsg |-> logmsg, wt |-> wt]
    ELSE LET f == k.revs[i]
             v == RepoRev(f.path, f.rev)
         IN apply_revs_ignores_failure(k, i + 1,
                IF logmsg = "" THEN getlog(f.path, k.revs[1].rev) ELSE logmsg,
                IF f.state = "dead" THEN remove(wt, f.path)
                ELSE write(wt, f.path,
                           IF scheme = "file" THEN expand_keyword(v)
                           ELSE checkout(v)))

RECURSIVE apply_revs(_, _, _, _)
apply_revs(k, i, logmsg, wt) ==
    IF i > Len(k.revs) THEN [ok |-> TRUE, logmsg |-> logmsg, wt |-> wt]
    ELSE LET f == k.revs[i]
             v == RepoRev(f.path, f.rev)
         IN IF logmsg = "" /\ ~getlog_returns(f.path, k.revs[1].rev)
            THEN [ok |-> FALSE, logmsg |-> logmsg, wt |-> wt]
            ELSE apply_revs(k, i + 1,
                     IF logmsg = "" THEN getlog(f.path, k.revs[1].rev) ELSE logmsg,
                     IF f.state = "dead" THEN remove(wt, f.path)
                     ELSE write(wt, f.path,
                                IF scheme = "file" THEN expand_keyword(v)
                                ELSE checkout(v)))

\* the date of the revision built for a changeset, loader.py:458
revision_date(k) == k.max_time

\* CvsLoader.build_swh_revision, loader.py:442-471.  A revision is named by
\* the hash of its fields: the record stands for its id.
build_swh_revision(k, logmsg, dir_id, parents) ==
    [type |-> "cvs", date |-> revision_date(k), committer_date |-> revision_date(k),
     directory |-> dir_id, message |-> logmsg, author |-> k.author,
     committer |-> k.author, synthetic |-> TRUE, parents |-> parents]

RevId(revision) == revision

\* the parents left empty
no_parents(last) == <<>>

\* loader.py:122-125
revision_parents(last) == IF last # <<>> THEN <<RevId(last[1])>> ELSE <<>>

\* the branch made to point at the tree of the revision
Snapshot_of_directory(revision) ==
    [branches |-> [b \in {DEFAULT_BRANCH} |->
                      [target |-> revision.directory, target_type |-> "directory"]]]

\* loader.py:483-489.  A snapshot is named by the hash of its branches: the
\* record stands for its id.
Snapshot(revision) ==
    [branches |-> [b \in {DEFAULT_BRANCH} |->
                      [target |-> RevId(revision), target_type |-> "revision"]]]

NoPending == [contents |-> {}, directories |-> {}, revisions |-> <<>>]

NoStorage == [content |-> {}, directory |-> {}, revision |-> {}, snapshot |-> {}]

(***************************************************************************)
(* Byte strings of the wire, cvsclient.py.  A byte string is a sequence of *)
(* runs [c |-> byte, n |-> count] in which adjacent runs hold different    *)
(* bytes, so that a line as long as the protocol buffer stays small.       *)
(***************************************************************************)
CVS_PROTOCOL_BUFFER_SIZE == 8192

\* the longest reply of which every split into recv results is explored;
\* of a longer one only the splits at the sizes next to recv's limit
MaxShort == 40

NL == "\n"

run(c, n) == IF n <= 0 THEN <<>> ELSE <<[c |-> c, n |-> n]>>

\* x + y
cat(x, y) ==
    IF x = <<>> THEN y
    ELSE IF y = <<>> THEN x
    ELSE IF x[Len(x)].c = y[1].c
    THEN SubSeq(x, 1, Len(x) - 1)
            \o <<[c |-> y[1].c, n |-> x[Len(x)].n + y[1].n]>> \o Tail(y)
    ELSE x \o y

\* a bytes literal, from its characters
RECURSIVE b(_)
b(chars) ==
    IF chars = <<>> THEN <<>> ELSE cat(run(Head(chars), 1), b(Tail(chars)))

\* the concatenation of a sequence of byte strings, b"".join(xs)
RECURSIVE join(_)
join(xs) == IF xs = <<>> THEN <<>> ELSE cat(Head(xs), join(Tail(xs)))

RECURSIVE len(_)
len(x) == IF x = <<>> THEN 0 ELSE Head(x).n + len(Tail(x))

\* x[:k]
RECURSIVE take(_, _)
take(x, k) ==
    IF k <= 0 \/ x = <<>> THEN <<>>
    ELSE IF Head(x).n <= k THEN <<Head(x)>> \o take(Tail(x), k - Head(x).n)
    ELSE run(Head(x).c, k)

\* x[k:]
RECURSIVE drop(_, _)
drop(x, k) ==
    IF k <= 0 \/ x = <<>> THEN x
    ELSE IF Head(x).n <= k THEN drop(Tail(x), k - Head(x).n)
    ELSE run(Head(x).c, Head(x).n - k) \o Tail(x)

\* x[i:j] of Python, i >= 0, j counted from the end when negative
slice(x, i, j) ==
    LET e == IF j < 0 THEN len(x) + j ELSE Min2(j, len(x))
    IN  IF e <= i THEN <<>> ELSE take(drop(x, i), e - i)

startswith(x, p) == take(x, len(p)) = p

\* x.rfind(b'\n') != -1
has_newline(x) == \E i \in 1..Len(x) : x[i].c = NL

\* the run of the last newline of x
last_newline(x) ==
    CHOOSE i \in 1..Len(x) :
        x[i].c = NL /\ \A j \in (i + 1)..Len(x) : x[j].c # NL

\* the carriage return
CR == "\r"

\* x.splitlines(keepends=True) of bytes, which ends a line at b'\n', at
\* b'\r' and at b'\r\n'; cur is the line that is being collected
RECURSIVE splitlines_from(_, _)
splitlines_from(x, cur) ==
    IF x = <<>> THEN (IF cur = <<>> THEN <<>> ELSE <<cur>>)
    ELSE IF Head(x).c = NL
    THEN <<cat(cur, run(NL, 1))>> \o splitlines_from(drop(x, 1), <<>>)
    ELSE IF Head(x).c = CR
    THEN IF startswith(drop(x, 1), run(NL, 1))
         THEN <<cat(cur, cat(run(CR, 1), run(NL, 1)))>>
                  \o splitlines_from(drop(x, 2), <<>>)
         ELSE <<cat(cur, run(CR, 1))>> \o splitlines_from(drop(x, 1), <<>>)
    ELSE splitlines_from(Tail(x), cat(cur, <<Head(x)>>))

splitlines(x) == splitlines_from(x, <<>>)

\* int(x) of a decimal byte string, -1 where Python raises ValueError
Digits == <<"0", "1", "2", "3", "4", "5", "6", "7", "8", "9">>

DigitOf(c) == (CHOOSE d \in 1..10 : Digits[d] = c) - 1

RECURSIVE int_from(_, _)
int_from(x, acc) ==
    IF x = <<>> THEN acc
    ELSE int_from(drop(x, 1), 10 * acc + DigitOf(Head(x).c))

int(x) ==
    IF x # <<>> /\ \A i \in 1..Len(x) : \E d \in 1..10 : Digits[d] = x[i].c
    THEN int_from(x, 0)
    ELSE -1

(***************************************************************************)
(* conn_read_line, cvsclient.py:121-154.  conn holds self.linebuffer and   *)
(* self.incomplete_line, and, while a call is reading, its buf; ret is     *)
(* what the call returned or raised, until the caller takes it.            *)
(***************************************************************************)
NoRet == [kind |-> "none", line |-> <<>>]

Ret(kind, line) == [kind |-> kind, line |-> line]

ConnInit ==
    [linebuffer |-> <<>>, incomplete_line |-> <<>>, reading |-> FALSE,
     buf |-> <<>>, require_newline |-> TRUE, ret |-> NoRet]

\* cvsclient.py:121-125: the call returns a buffered line or starts to read
conn_read_line(c, require_newline) ==
    IF Len(c.linebuffer) # 0
    THEN [c EXCEPT !.ret = Ret("line", Head(c.linebuffer)),
                   !.linebuffer = Tail(c.linebuffer),
                   !.require_newline = require_newline]
    ELSE [c EXCEPT !.reading = TRUE, !.buf = <<>>, !.ret = NoRet,
                   !.require_newline = require_newline]

\* cvsclient.py:141-154: after the loop, idx != -1 iff buf holds a newline
conn_read_line_end(c, buf) ==
    IF ~has_newline(buf) /\ c.require_newline
    THEN [c EXCEPT !.reading = FALSE, !.buf = <<>>,
                   !.ret = Ret("CVSProtocolError", <<>>)]
    ELSE LET idx == last_newline(buf)
             lines == IF has_newline(buf)
                      THEN splitlines(SubSeq(buf, 1, idx))
                      ELSE c.linebuffer \o <<buf>>
             first == IF len(c.incomplete_line) > 0
                      THEN cat(c.incomplete_line, lines[1])
                      ELSE lines[1]
         IN  [c EXCEPT !.reading = FALSE, !.buf = <<>>,
                       !.ret = Ret("line", first),
                       !.linebuffer = Tail(lines),
                       !.incomplete_line =
                           IF has_newline(buf)
                           THEN SubSeq(buf, idx + 1, Len(buf))
                           ELSE <<>>]

\* socket.recv(n): between one byte and n bytes of what the server has sent,
\* and b'' once the server has sent everything and closed
RecvSizes(avail, n) ==
    IF avail = 0 THEN {0}
    ELSE IF avail <= MaxShort THEN 1..Min2(avail, n)
    ELSE {k \in {n - 1, n, avail} : k <= n /\ k <= avail /\ k >= 1}

\* cvsclient.py:126-140: one turn of the loop of conn_read_line
conn_recv ==
    /\ conn.reading
    /\ IF len(conn.buf) >= CVS_PROTOCOL_BUFFER_SIZE
       THEN /\ conn' = IF conn.require_newline
                       THEN [conn EXCEPT !.reading = FALSE, !.buf = <<>>,
                                !.ret = Ret("CVSProtocolError", <<>>)]
                       ELSE conn_read_line_end(conn, conn.buf)
            /\ UNCHANGED wire_in
       ELSE \E k \in RecvSizes(len(wire_in), CVS_PROTOCOL_BUFFER_SIZE) :
                LET buf == cat(conn.buf, take(wire_in, k))
                IN  /\ wire_in' = drop(wire_in, k)
                    /\ conn' =
                         IF buf = <<>>
                         THEN [conn EXCEPT !.reading = FALSE,
                                           !.ret = Ret("None", <<>>)]
                         ELSE IF has_newline(buf)
                         THEN conn_read_line_end(conn, buf)
                         ELSE IF k = 0
                         THEN [conn EXCEPT !.reading = FALSE,
                                           !.ret = Ret("hang", <<>>)]
                         ELSE [conn EXCEPT !.buf = buf]
    /\ UNCHANGED <<rlvars, loadervars, served, client, sent>>

\* _re_kb_opt.search(x), cvsclient.py:62: x holds b'/-kb/'
contains(x, p) ==
    \E i \in 0..(len(x) - len(p)) : take(drop(x, i), len(p)) = p

(***************************************************************************)
(* The byte strings cvsclient.py compares replies with.                    *)
(***************************************************************************)
I_LOVE_YOU == b(<<"I", " ", "L", "O", "V", "E", " ", "Y", "O", "U", NL>>)

Valid_requests ==
    b(<<"V", "a", "l", "i", "d", "-", "r", "e", "q", "u", "e", "s", "t",
        "s", " ">>)

ok == b(<<"o", "k", NL>>)

E_ == b(<<"E", " ">>)

M_ == b(<<"M", " ">>)

MT_text == b(<<"M", "T", " ", "t", "e", "x", "t", " ">>)

MT_date == b(<<"M", "T", " ", "d", "a", "t", "e", " ">>)

MT_newline == b(<<"M", "T", " ", "n", "e", "w", "l", "i", "n", "e">>)

MT_fname == b(<<"M", "T", " ", "f", "n", "a", "m", "e", " ">>)

MT_updated(sign) ==
    b(<<"M", "T", " ", sign, "u", "p", "d", "a", "t", "e", "d", NL>>)

error_ == b(<<"e", "r", "r", "o", "r", " ", " ">>)

Created == b(<<"C", "r", "e", "a", "t", "e", "d", " ">>)

kb_opt == b(<<"/", "-", "k", "b", "/">>)

(***************************************************************************)
(* CVSClient, cvsclient.py:64-334, on a pserver connection.  client.pc is  *)
(* the call of conn_read_line the method waits for; client.raised the      *)
(* exception that ended it, "hang" a loop that never ends.  History:       *)
(* bytecounts is the number of lines checkout has handed to int().         *)
(***************************************************************************)
ClientInit ==
    [pc |-> "new", raised |-> "", fp |-> <<>>, result |-> <<>>,
     skip_line |-> FALSE, expect_modeline |-> FALSE,
     expect_bytecount |-> FALSE, have_bytecount |-> FALSE, bytecount |-> 0,
     co_output |-> <<>>, bytecounts |-> 0]

raise(c, exc) == [c EXCEPT !.pc = "raised", !.raised = exc]

\* what conn_read_line returned to the method that waits at position p
returned(p) == client.pc = p /\ conn.ret.kind # "none"

\* conn_read_line itself raised, or never returns
read_failed == conn.ret.kind \in {"CVSProtocolError", "hang"}

response == conn.ret.line

\* cvsclient.py:66-89 and 177-203: connect_pserver reads the answer to the
\* authentication request with one recv(11); __init__ then writes Root
connect_pserver ==
    /\ client.pc = "new"
    /\ \E k \in RecvSizes(len(served.auth), 11) :
           IF take(served.auth, k) # I_LOVE_YOU
           THEN /\ client' = raise(client, "NotFound")
                /\ sent' = <<"AUTH">>
                /\ wire_in' = drop(served.auth, k)
                /\ UNCHANGED conn
           ELSE /\ client' = [client EXCEPT !.pc = "Valid-requests"]
                /\ sent' = <<"AUTH", "Root">>
                /\ wire_in' = cat(drop(served.auth, k), served.handshake)
                /\ conn' = conn_read_line(conn, TRUE)
    /\ UNCHANGED <<rlvars, loadervars, served>>

\* a handshake that takes any first line
handshake_accepts_any(line) == TRUE

\* cvsclient.py:204-211: the first line of the answer to Root
handshake_accepts(line) == slice(line, 0, 15) = Valid_requests

init_valid_requests ==
    /\ returned("Valid-requests")
    /\ IF read_failed
       THEN client' = raise(client, conn.ret.kind) /\ UNCHANGED conn
       ELSE IF conn.ret.kind = "None" \/ ~handshake_accepts(response)
       THEN client' = raise(client, "CVSProtocolError") /\ UNCHANGED conn
       ELSE /\ client' = [client EXCEPT !.pc = "ok"]
            /\ conn' = conn_read_line(conn, TRUE)
    /\ UNCHANGED <<rlvars, loadervars, served, wire_in, sent>>

\* cvsclient.py:212-214: the second line of the answer to Root
init_ok ==
    /\ returned("ok")
    /\ IF read_failed
       THEN client' = raise(client, conn.ret.kind)
       ELSE IF conn.ret.kind = "None" \/ response # ok
       THEN client' = raise(client, "CVSProtocolError")
       ELSE client' = [client EXCEPT !.pc = "connected"]
    /\ conn' = [conn EXCEPT !.ret = NoRet]
    /\ UNCHANGED <<rlvars, loadervars, served, wire_in, sent>>

\* cvsclient.py:219-243: _parse_rlog_response over the lines of fp, out what
\* was written to rlog_output; expect_error is never set, line 239 assigns
\* another name
RECURSIVE parse_rlog_response(_, _)
parse_rlog_response(lines, out) ==
    IF lines = <<>> THEN [raised |-> "", result |-> out]
    ELSE LET line == Head(lines)
             rest == Tail(lines)
         IN  IF line = ok THEN [raised |-> "", result |-> out]
             ELSE IF line = cat(M_, run(NL, 1))
             THEN parse_rlog_response(rest, out)
             ELSE IF slice(line, 0, 2) = M_
             THEN parse_rlog_response(rest, cat(out, drop(line, 2)))
             ELSE IF slice(line, 0, 8) = MT_text
             THEN parse_rlog_response(rest, cat(out, slice(line, 8, -1)))
             ELSE IF slice(line, 0, 8) = MT_date
             THEN parse_rlog_response(rest, cat(out, slice(line, 8, -1)))
             ELSE IF slice(line, 0, 10) = MT_newline
             THEN parse_rlog_response(rest, cat(out, drop(line, 10)))
             ELSE IF slice(line, 0, 7) = error_
             THEN parse_rlog_response(rest, out)
             ELSE [raised |-> "CVSProtocolError", result |-> <<>>]

\* cvsclient.py:246-249: fetch_rlog writes its request
fetch_rlog ==
    /\ client.pc = "connected"
    /\ served.op = "rlog"
    /\ sent' = Append(sent, "rlog")
    /\ wire_in' = cat(wire_in, served.reply)
    /\ conn' = conn_read_line(conn, TRUE)
    /\ client' = [client EXCEPT !.pc = "rlog", !.fp = <<>>]
    /\ UNCHANGED <<rlvars, loadervars, served>>

\* cvsclient.py:250-260: one turn of the loop of fetch_rlog
fetch_rlog_response ==
    /\ returned("rlog")
    /\ IF read_failed
       THEN client' = raise(client, conn.ret.kind) /\ UNCHANGED conn
       ELSE IF conn.ret.kind = "None" \/ slice(response, 0, 2) = E_
       THEN client' = raise(client, "CVSProtocolError") /\ UNCHANGED conn
       ELSE IF response = ok
       THEN LET parsed == parse_rlog_response(Append(client.fp, response), <<>>)
            IN  /\ client' = IF parsed.raised # ""
                             THEN raise(client, parsed.raised)
                             ELSE [client EXCEPT !.pc = "returned",
                                                 !.result = parsed.result]
                /\ conn' = [conn EXCEPT !.ret = NoRet]
       ELSE /\ client' = [client EXCEPT !.fp = Append(@, response)]
            /\ conn' = conn_read_line(conn, TRUE)
    /\ UNCHANGED <<rlvars, loadervars, served, wire_in, sent>>

\* cvsclient.py:262-281: checkout writes its request
checkout_co ==
    /\ client.pc = "connected"
    /\ served.op = "co"
    /\ sent' = Append(sent, "co")
    /\ wire_in' = cat(wire_in, served.reply)
    /\ conn' = conn_read_line(conn, TRUE)
    /\ client' = [client EXCEPT !.pc = "co"]
    /\ UNCHANGED <<rlvars, loadervars, served>>

\* cvsclient.py:282-283 and 291-292: the next turn of the loop of checkout
\* reads file data while bytes of the file are missing
checkout_continue(c) ==
    /\ client' = c
    /\ conn' = conn_read_line(conn, ~(c.have_bytecount /\ c.bytecount > 0))

\* cvsclient.py:283-290: a line of file data
checkout_data ==
    /\ returned("co")
    /\ client.have_bytecount /\ client.bytecount > 0
    /\ IF read_failed
       THEN client' = raise(client, conn.ret.kind) /\ UNCHANGED conn
       ELSE IF conn.ret.kind = "None"
       THEN client' = raise(client, "CVSProtocolError") /\ UNCHANGED conn
       ELSE LET c == [client EXCEPT
                         !.co_output = cat(@, response),
                         !.bytecount = @ - len(response)]
            IN  IF c.bytecount < 0
                THEN client' = raise(c, "CVSProtocolError") /\ UNCHANGED conn
                ELSE checkout_continue(c)
    /\ UNCHANGED <<rlvars, loadervars, served, wire_in, sent>>

\* cvsclient.py:291-334: a line of the reply that is not file data
checkout_response ==
    /\ returned("co")
    /\ ~(client.have_bytecount /\ client.bytecount > 0)
    /\ IF read_failed
       THEN client' = raise(client, conn.ret.kind) /\ UNCHANGED conn
       ELSE IF conn.ret.kind = "None"
       THEN client' = raise(client, "TypeError") /\ UNCHANGED conn
       ELSE IF slice(response, 0, 2) = E_
       THEN client' = raise(client, "CVSProtocolError") /\ UNCHANGED conn
       ELSE IF client.have_bytecount /\ client.bytecount = 0 /\ response = ok
       THEN /\ client' = [client EXCEPT !.pc = "returned",
                                        !.result = client.co_output]
            /\ conn' = [conn EXCEPT !.ret = NoRet]
       ELSE IF client.skip_line
       THEN checkout_continue([client EXCEPT !.skip_line = FALSE])
       ELSE IF client.expect_bytecount
       THEN IF int(slice(response, 0, -1)) < 0
            THEN /\ client' = raise([client EXCEPT !.bytecounts = @ + 1],
                                    "CVSProtocolError")
                 /\ UNCHANGED conn
            ELSE checkout_continue(
                     [client EXCEPT !.bytecount = int(slice(response, 0, -1)),
                                    !.have_bytecount = TRUE,
                                    !.bytecounts = @ + 1])
       ELSE IF \/ response = cat(M_, run(NL, 1))
               \/ response = MT_updated("+")
               \/ response = MT_updated("-")
               \/ slice(response, 0, 9) = MT_fname
       THEN checkout_continue(client)
       ELSE IF slice(response, 0, 8) = Created
       THEN checkout_continue([client EXCEPT !.skip_line = TRUE])
       ELSE IF slice(response, 0, 1) = run("/", 1) /\ contains(response, kb_opt)
       THEN checkout_continue([client EXCEPT !.expect_modeline = TRUE])
       ELSE IF client.expect_modeline
                 /\ slice(response, 0, 2) = b(<<"u", "=">>)
       THEN checkout_continue([client EXCEPT !.expect_modeline = FALSE,
                                             !.expect_bytecount = TRUE])
       ELSE IF \/ slice(response, 0, 2) = M_
               \/ slice(response, 0, 8) = MT_text
               \/ slice(response, 0, 10) = MT_newline
       THEN checkout_continue(client)
       ELSE client' = raise(client, "CVSProtocolError") /\ UNCHANGED conn
    /\ UNCHANGED <<rlvars, loadervars, served, wire_in, sent>>

\* what a server answers: to the authentication request, to Root, and to the
\* one request op that follows; lines and data are what reply was made of
Serve(auth, handshake, op, reply, lines, data) ==
    [auth |-> auth, handshake |-> handshake, op |-> op, reply |-> reply,
     lines |-> lines, data |-> data]

\* no client is connected
WireIdle ==
    /\ served = Serve(<<>>, <<>>, "", <<>>, <<>>, <<>>)
    /\ wire_in = <<>>
    /\ conn = ConnInit
    /\ client = ClientInit
    /\ sent = <<>>

(***************************************************************************)
(* The rlog parser, rlog.py.  The rlog file is a sequence of lines and the *)
(* position of the next line to read; fp.tell() is that position.          *)
(***************************************************************************)

\* the bytes of x one by one
RECURSIVE expand(_)
expand(x) ==
    IF x = <<>> THEN <<>>
    ELSE [i \in 1..Head(x).n |-> Head(x).c] \o expand(Tail(x))

\* what Python 3 gives for x[i] of a bytes object, an int, and a bytes
\* object as a value: the two are never equal
py_int(x, i) == [type |-> "int", val |-> take(drop(x, i), 1)]

py_bytes(x) == [type |-> "bytes", val |-> x]

TAB == "\t"

\* \s of a bytes pattern
Whitespace == {" ", TAB, NL, "\r"}

\* x.split(sep) for a separator of one byte
RECURSIVE split(_, _)
split(x, sep) ==
    IF \A i \in 1..Len(x) : x[i].c # sep THEN <<x>>
    ELSE LET i == CHOOSE k \in 1..Len(x) :
                      x[k].c = sep /\ \A j \in 1..(k - 1) : x[j].c # sep
         IN  <<SubSeq(x, 1, i - 1)>>
                 \o split(run(sep, x[i].n - 1) \o SubSeq(x, i + 1, Len(x)), sep)

lstrip(x) ==
    IF \A i \in 1..Len(x) : x[i].c \in Whitespace THEN <<>>
    ELSE SubSeq(x, CHOOSE k \in 1..Len(x) :
                       x[k].c \notin Whitespace
                           /\ \A j \in 1..(k - 1) : x[j].c \in Whitespace,
                Len(x))

rstrip(x) ==
    IF \A i \in 1..Len(x) : x[i].c \in Whitespace THEN <<>>
    ELSE SubSeq(x, 1, CHOOSE k \in 1..Len(x) :
                          x[k].c \notin Whitespace
                              /\ \A j \in (k + 1)..Len(x) : x[j].c \in Whitespace)

\* x.strip()
strip(x) == rstrip(lstrip(x))

\* rlog.py:182-187
LOG_END_MARKER == cat(run("=", 77), run(NL, 1))

ENTRY_END_MARKER == cat(run("-", 28), run(NL, 1))

_EOF_FILE == "end of file entries"

_EOF_LOG == "end of log"

_EOF_ERROR == "error message found"

\* the eof flag that is None
NoEof == "None"

\* fp.readline(): the line at pos, b'' at the end of the file
readline(fp) == IF fp.pos > Len(fp.lines) THEN <<>> ELSE fp.lines[fp.pos]

\* \s+ followed by a group of at least one byte: the group the match gives
\* when the text up to the delimiter is x, <<>> when there is no match
spaced_group(x) ==
    IF len(x) < 2 \/ x[1].c \notin Whitespace THEN <<>>
    ELSE IF lstrip(x) # <<>> THEN lstrip(x)
    ELSE run(x[Len(x)].c, 1)

DigitChars == {Digits[d] : d \in 1..10}

\* the one element of a set of one element: the({f(x) : x \in {e}}) is f(e)
\* with e evaluated once
the(S) == CHOOSE r \in S : TRUE

\* the line without the newline that ends it
chomp(line) ==
    IF line # <<>> /\ line[Len(line)].c = NL
    THEN slice(line, 0, len(line) - 1) ELSE line

\* whether x begins with (?:\:\d+)?\: and a space
after_file(x) ==
    \/ startswith(x, b(<<":", " ">>))
    \/ /\ startswith(x, run(":", 1))
       /\ \E n \in 1..(len(x) - 3) :
             /\ \A j \in 1..n : take(drop(x, j), 1)[1].c \in DigitChars
             /\ take(drop(x, n + 1), 2) = b(<<":", " ">>)

\* _re_log_error, rlog.py:204: b"^(?:rlog\: )*(.*,v)(?:\:\d+)?\: (.*)$".
\* The places where a line can be cut after a ",v" with what follows
\* matching; the match takes the last one.
log_error_cuts(body) ==
    IF \E i \in 1..Len(body) : body[i].c = NL THEN {}
    ELSE {i \in 2..len(body) :
             /\ slice(body, i - 2, i) = b(<<",", "v">>)
             /\ after_file(drop(body, i))}

\* _re_cvsnt_error, rlog.py:210-215, matches a line that begins with one of
\* its two prefixes
cvsnt_error(line) ==
    \/ startswith(line, b(<<"c", "v", "s", " ", "r", "c", "s", "f", "i", "l",
                            "e", ":", " ">>))
    \/ startswith(line, b(<<"c", "v", "s", " ", "[", "r", "c", "s", "f", "i",
                            "l", "e", " ", "a", "b", "o", "r", "t", "e", "d",
                            "]", ":", " ">>))

\* the largest i with x[i-len(suffix):i] = suffix, -1 when there is none:
\* where a greedy (.*suffix) ends
last_cut(x, suffix) ==
    LET cuts == {i \in len(suffix)..len(x) :
                    slice(x, i - len(suffix), i) = suffix}
    IN  IF cuts = {} THEN -1
        ELSE CHOOSE i \in cuts : \A j \in cuts : j <= i

rlog_prefix == b(<<"r", "l", "o", "g", ":", " ">>)

\* the line without the prefixes (?:rlog\: )* takes
RECURSIVE strip_rlog_prefix(_)
strip_rlog_prefix(x) ==
    IF startswith(x, rlog_prefix) /\ log_error_cuts(drop(x, 6)) # {}
    THEN strip_rlog_prefix(drop(x, 6))
    ELSE x

\* the groups of _re_log_error when the file name ends at cut
log_error_groups(x, cut) ==
    <<take(x, cut),
      the({IF startswith(rest, run(" ", 1)) THEN drop(rest, 1)
           ELSE drop(rest, 2 + (CHOOSE n \in 0..len(rest) :
                                    take(drop(rest, n), 1) = run(":", 1)
                                        /\ \A j \in 0..(n - 1) :
                                              take(drop(rest, j), 1) # run(":", 1))) :
              rest \in {drop(x, cut + 1)}})>>

\* _re_log_error, rlog.py:204: the groups file and msg, <<>> when the line
\* does not match
_re_log_error(line) ==
    the({the({IF cuts = {} THEN <<>>
              ELSE log_error_groups(x, CHOOSE k \in cuts : \A j \in cuts : j <= k) :
                 cuts \in {log_error_cuts(x)}}) :
            x \in {strip_rlog_prefix(chomp(line))}})

\* p2 or p3 of _re_cvsnt_error, rlog.py:210-215 and 284-285: the file name
\* of a CVSNT error line, <<>> when the line names none (p1 is a name
\* between a back quote and a quote; no line of the model holds a back quote)
cvsnt_error_filename(line) ==
    LET body == chomp(line)
        rest == IF startswith(body, b(<<"c", "v", "s", " ", "r">>))
                THEN drop(body, 13) ELSE drop(body, 23)
        cannot_open == b(<<"c", "a", "n", "n", "o", "t", " ", "o", "p", "e", "n", " ">>)
        colon == last_cut(rest, b(<<",", "v", ":", " ">>))
    IN  IF startswith(rest, cannot_open) /\ colon >= 16
        THEN slice(rest, 12, colon - 2)
        ELSE IF colon >= 4 THEN slice(rest, 0, colon - 2)
        ELSE <<>>

\* one tab-indented line of the tag or of the lock table, rlog.py:247-249
\* and 255-257: [x.strip() for x in line.split(b":")], which must be two
table_entry(line) ==
    LET parts == split(line, ":")
    IN  IF Len(parts) = 2 THEN <<strip(parts[1]), strip(parts[2])>> ELSE <<>>

\* d[k] = v on a dictionary held as a set of pairs
setitem(d, k, v) == {e \in d : e[1] # k} \union {<<k, v>>}

HeaderInit(fp) ==
    [fp |-> fp, filename |-> <<>>, branch |-> <<>>, msg |-> <<>>,
     taginfo |-> {}, lockinfo |-> {}, state |-> 0, eof |-> NoEof,
     raised |-> "", done |-> FALSE]

\* rlog.py:246-252 and 254-260: a line while the table of the state is
\* being read, which holds the tags by name and the lockers by revision
header_table(h, line, state, table, key, value) ==
    IF h.state # state \/ h.raised # "" THEN h
    ELSE IF py_int(line, 0) # py_bytes(run(TAB, 1)) THEN [h EXCEPT !.state = 0]
    ELSE the({IF entry = <<>> THEN [h EXCEPT !.raised = "ValueError"]
              ELSE [h EXCEPT ![table] = setitem(@, entry[key], entry[value])] :
                 entry \in {table_entry(line)}})

\* rlog.py:281-304: a line of the header that is none of its fields
header_error(h, line) ==
    IF cvsnt_error(line)
    THEN the({IF f = <<>> THEN [h EXCEPT !.raised = "NameError"]
              ELSE [h EXCEPT !.filename = f, !.eof = _EOF_ERROR, !.done = TRUE] :
                 f \in {cvsnt_error_filename(line)}})
    ELSE the({IF error = <<>> THEN h
              ELSE IF slice(error[2], 0, 30)
                          = join(<<b(<<"w", "a", "r", "n", "i", "n", "g", ":", " ", "U">>),
                                   b(<<"n", "k", "n", "o", "w", "n", " ", "p", "h", "r">>),
                                   b(<<"a", "s", "e", "s", " ", "l", "i", "k", "e", " ">>)>>)
              THEN [h EXCEPT !.filename = error[1], !.msg = error[2]]
              ELSE [h EXCEPT !.filename = error[1], !.msg = error[2],
                             !.eof = _EOF_ERROR, !.done = TRUE] :
                 error \in {_re_log_error(line)}})

\* rlog.py:262-304: a line in state 0
header_field(h, line) ==
    IF h.state # 0 \/ h.raised # "" THEN h
    ELSE IF slice(line, 0, 9) = b(<<"R", "C", "S", " ", "f", "i", "l", "e", ":">>)
    THEN [h EXCEPT !.filename = slice(line, 10, len(line) - 1)]
    ELSE IF slice(line, 0, 5) = b(<<"h", "e", "a", "d", ":">>) THEN h
    ELSE IF slice(line, 0, 7) = b(<<"b", "r", "a", "n", "c", "h", ":">>)
    THEN [h EXCEPT !.branch = slice(line, 8, len(line) - 1)]
    ELSE IF slice(line, 0, 6) = b(<<"l", "o", "c", "k", "s", ":">>)
    THEN [h EXCEPT !.state = 2]
    ELSE IF slice(line, 0, 14) = cat(b(<<"s", "y", "m", "b", "o", "l", "i", "c">>),
                                     b(<<" ", "n", "a", "m", "e", "s">>))
    THEN [h EXCEPT !.state = 1]
    ELSE IF line = ENTRY_END_MARKER THEN [h EXCEPT !.done = TRUE]
    ELSE IF line = LOG_END_MARKER THEN [h EXCEPT !.eof = _EOF_FILE, !.done = TRUE]
    ELSE header_error(h, line)

\* rlog.py:240-304: one pass of the loop, on the line it read
header_line(h, line) ==
    IF line = <<>> THEN [h EXCEPT !.eof = _EOF_LOG, !.done = TRUE]
    ELSE the({the({header_field(locks, line) :
                      locks \in {header_table(tags, line, 2, "lockinfo", 2, 1)}}) :
                 tags \in {header_table([h EXCEPT !.fp.pos = @ + 1], line, 1,
                                        "taginfo", 1, 2)}})

\* _parse_log_header, rlog.py:218-306, from its local state h: the record it
\* returns, with the position of fp and the exception it raised
RECURSIVE _parse_log_header(_)
_parse_log_header(h) ==
    the({IF next.done \/ next.raised # "" THEN next ELSE _parse_log_header(next) :
            next \in {the({header_line(hv, readline(hv.fp)) : hv \in {h}})}})

\* x.split() when x neither begins nor ends with whitespace
RECURSIVE words(_)
words(x) ==
    IF \A i \in 1..Len(x) : x[i].c \notin Whitespace THEN <<x>>
    ELSE LET i == CHOOSE k \in 1..Len(x) :
                      x[k].c \in Whitespace
                          /\ \A j \in 1..(k - 1) : x[j].c \notin Whitespace
         IN  <<SubSeq(x, 1, i - 1)>> \o words(lstrip(SubSeq(x, i, Len(x))))

\* a field of one to width digits as a number, -1 for anything else
field(x, width) == IF len(x) <= width THEN int(x) ELSE -1

leap(y) == y % 4 = 0 /\ (y % 100 # 0 \/ y % 400 = 0)

days_in_month(y, m) ==
    IF m = 2 THEN (IF leap(y) THEN 29 ELSE 28)
    ELSE IF m \in {4, 6, 9, 11} THEN 30 ELSE 31

\* the [+-]HH[:]MM or Z that %z takes
is_zone(z) ==
    LET e == expand(z)
        digits == IF Len(e) = 6 /\ e[4] = ":"
                  THEN SubSeq(e, 2, 3) \o SubSeq(e, 5, 6)
                  ELSE SubSeq(e, 2, Len(e))
    IN  \/ e = <<"Z">>
        \/ /\ Len(e) \in {5, 6}
           /\ e[1] \in {"+", "-"}
           /\ Len(digits) = 4
           /\ \A i \in 1..4 : digits[i] \in DigitChars
           /\ digits[3] \in {"0", "1", "2", "3", "4", "5"}

\* time.strptime of a date and a time of day with the separator sep of the
\* date: the fields (year, month, day, hour, minute, second), <<>> for
\* ValueError
strptime_fields(date, tod, sep) ==
    the({IF Len(d) # 3 \/ Len(t) # 3 THEN <<>>
         ELSE the({IF /\ tm[1] >= 0
                      /\ tm[2] \in 1..12
                      /\ tm[3] >= 1
                      /\ tm[3] <= days_in_month(tm[1], tm[2])
                      /\ tm[4] \in 0..23
                      /\ tm[5] \in 0..59
                      /\ tm[6] \in 0..61
                   THEN tm ELSE <<>> :
                      tm \in {<<IF len(d[1]) = 4 THEN int(d[1]) ELSE -1,
                                field(d[2], 2), field(d[3], 2),
                                field(t[1], 2), field(t[2], 2), field(t[3], 2)>>}}) :
            d \in {split(date, sep)}, t \in {split(tod, ":")}})

\* cvs_strptime, rlog.py:321-325: "%Y/%m/%d %H:%M:%S", and when that fails
\* "%Y-%m-%d %H:%M:%S %z", whose offset [:-1] + (0,) leaves no trace of in
\* the fields calendar.timegm reads
cvs_strptime(timestr) ==
    the({the({IF first # <<>> THEN first
              ELSE IF Len(w) = 3 /\ is_zone(w[3])
              THEN strptime_fields(w[1], w[2], "-")
              ELSE <<>> :
                 first \in {IF Len(w) = 2 THEN strptime_fields(w[1], w[2], "/")
                            ELSE <<>>}}) :
            w \in {IF timestr = <<>> \/ timestr[1].c \in Whitespace
                       \/ timestr[Len(timestr)].c \in Whitespace
                   THEN <<>> ELSE words(timestr)}})

\* calendar.timegm
timegm(tm) ==
    LET y == IF tm[2] <= 2 THEN tm[1] - 1 ELSE tm[1]
        era == y \div 400
        yoe == y - era * 400
        doy == (153 * (IF tm[2] > 2 THEN tm[2] - 3 ELSE tm[2] + 9) + 2) \div 5
                   + tm[3] - 1
        doe == yoe * 365 + yoe \div 4 - yoe \div 100 + doy
        days == era * 146097 + doe - 719468
    IN  ((days * 24 + tm[4]) * 60 + tm[5]) * 60 + tm[6]

\* rlog.py:385
EPOCH == 1970

\* rlog.py:381-392: the time of a revision from its date, -1 when
\* cvs_strptime or the test of the year raises ValueError
entry_date(timestr) ==
    the({IF tm = <<>> THEN -1
         ELSE the({IF year < EPOCH THEN -1 ELSE timegm([tm EXCEPT ![1] = year]) :
                      year \in {IF tm[1] < EPOCH /\ tm[1] - 1900 < 70
                                THEN tm[1] + 100 ELSE tm[1]}}) :
            tm \in {cvs_strptime(timestr)}})

\* _re_rev, rlog.py:318: the group of b"^revision\s+([0-9.]+).*", <<>> when
\* the line does not match
_re_rev(line) ==
    the({IF rest = <<>> \/ rest[1].c \notin Whitespace THEN <<>>
         ELSE the({take(digits, CHOOSE k \in 0..len(digits) :
                       /\ \A j \in 0..(k - 1) :
                             take(drop(digits, j), 1)[1].c \in DigitChars \union {"."}
                       /\ k < len(digits) =>
                             take(drop(digits, k), 1)[1].c \notin DigitChars \union {"."}) :
                      digits \in {lstrip(rest)}}) :
            rest \in {drop(line, 8)}})

\* the text between two semicolons of the line of _re_log_info that begins
\* with name: the group of \s+name:\s+([^;]+), <<>> when there is no match
info_group(x, name, spaced) ==
    LET y == IF spaced
             THEN (IF x # <<>> /\ x[1].c \in Whitespace THEN lstrip(x) ELSE <<>>)
             ELSE x
    IN  IF startswith(y, name) THEN spaced_group(drop(y, len(name))) ELSE <<>>

AlnumChars ==
    DigitChars \union
    {"a", "b", "c", "d", "e", "f", "g", "h", "i", "j", "k", "l", "m", "n", "o",
     "p", "q", "r", "s", "t", "u", "v", "w", "x", "y", "z", "A", "B", "C", "D",
     "E", "F", "G", "H", "I", "J", "K", "L", "M", "N", "O", "P", "Q", "R", "S",
     "T", "U", "V", "W", "X", "Y", "Z"}

\* whether every byte of x but the last is one of chars and the last is last
ends_after(x, chars, last) ==
    /\ x # <<>>
    /\ x[Len(x)] = [c |-> last, n |-> 1]
    /\ \A i \in 1..(Len(x) - 1) : x[i].c \in chars

\* (\s+commitid:\s+([a-zA-Z0-9]+))?\n$ of _re_log_info
commitid_tail(x) ==
    \/ x = run(NL, 1)
    \/ /\ x # <<>> /\ x[1].c \in Whitespace
       /\ \E y \in {lstrip(x)} :
             /\ startswith(y, b(<<"c", "o", "m", "m", "i", "t", "i", "d", ":">>))
             /\ \E id \in {drop(y, 9)} :
                   /\ id # <<>> /\ id[1].c \in Whitespace
                   /\ len(lstrip(id)) >= 2
                   /\ ends_after(lstrip(id), AlnumChars, NL)

\* (\s+lines:\s+([0-9\s+-]+);?)? of _re_log_info and what follows it
info_tail(x) ==
    \/ commitid_tail(x)
    \/ /\ x # <<>> /\ x[1].c \in Whitespace
       /\ \E y \in {lstrip(x)} :
             /\ startswith(y, b(<<"l", "i", "n", "e", "s", ":">>))
             /\ \E counts \in {drop(y, 6)} :
                   /\ counts # <<>> /\ counts[1].c \in Whitespace
                   /\ \E k \in 2..len(counts) :
                         /\ \A i \in 1..Len(take(counts, k)) :
                               take(counts, k)[i].c
                                   \in DigitChars \union Whitespace \union {"+", "-"}
                         /\ \/ commitid_tail(drop(counts, k))
                            \/ /\ startswith(drop(counts, k), run(";", 1))
                               /\ commitid_tail(drop(counts, k + 1))

\* _re_log_info, rlog.py:309-315: the groups date, author and state of the
\* line, <<>> when the line does not match
_re_log_info(line) ==
    the({IF Len(parts) < 4 THEN <<>>
         ELSE the({IF groups[1] = <<>> \/ groups[2] = <<>> \/ groups[3] = <<>>
                   THEN <<>>
                   ELSE IF ~info_tail(drop(line, len(parts[1]) + len(parts[2])
                                                     + len(parts[3]) + 3))
                   THEN <<>>
                   ELSE groups :
                      groups \in {<<info_group(parts[1], b(<<"d", "a", "t", "e", ":">>), FALSE),
                                    info_group(parts[2], b(<<"a", "u", "t", "h", "o", "r", ":">>), TRUE),
                                    info_group(parts[3], b(<<"s", "t", "a", "t", "e", ":">>), TRUE)>>}}) :
            parts \in {split(line, ";")}})

\* bytes.decode of ASCII bytes: the characters as a string
decode(x) == expand(x)

\* the states the clusterer tells apart, as the strings it compares with
decode_state(x) ==
    IF expand(x) = <<"d", "e", "a", "d">> THEN "dead"
    ELSE IF expand(x) = <<"E", "x", "p">> THEN "Exp"
    ELSE "other"

\* k.split(".") of a revision number, rlog.py:94, its parts as numbers
rev_numbers(revstr) ==
    LET parts == split(b(revstr), ".")
    IN  [i \in 1..Len(parts) |-> int(parts[i])]

\* rlog.py:355-356: the loop of the log message before its first pass
LogInit(fp) == [fp |-> fp, log |-> <<>>, eof |-> NoEof, done |-> FALSE]

\* rlog.py:358-374: one pass of the loop, on the line it read
log_line(l, line) ==
    IF line = <<>> THEN [l EXCEPT !.eof = _EOF_LOG, !.done = TRUE]
    ELSE IF slice(line, 0, 9) = b(<<"b", "r", "a", "n", "c", "h", "e", "s", ":">>)
    THEN [l EXCEPT !.fp.pos = @ + 1]
    ELSE IF line = ENTRY_END_MARKER
    THEN [l EXCEPT !.fp.pos = @ + 1, !.done = TRUE]
    ELSE IF line = LOG_END_MARKER
    THEN [l EXCEPT !.fp.pos = @ + 1, !.eof = _EOF_FILE, !.done = TRUE]
    ELSE [l EXCEPT !.fp.pos = @ + 1, !.log = cat(@, line)]

\* rlog.py:357-374
RECURSIVE log_loop(_)
log_loop(l) ==
    the({IF next.done THEN next ELSE log_loop(next) :
            next \in {the({log_line(lv, readline(lv.fp)) : lv \in {l}})}})

\* what _parse_log_entry returns: rev is <<>> for None, or holds the tuple
Entry(fp, rev, log, eof, raised) ==
    [fp |-> fp, rev |-> rev, logmsg |-> log, eof |-> eof, raised |-> raised]

\* rlog.py:355-410: the log message and the tuple of the revision rev,
\* whose line of date, author and state gave the groups of match
entry_log(fp, rev, match) ==
    the({IF rev = <<>> \/ match = <<>> THEN Entry(l.fp, <<>>, <<>>, l.eof, "")
         ELSE the({IF date < 0 THEN Entry(l.fp, <<>>, <<>>, l.eof, "ValueError")
                   ELSE Entry(l.fp,
                              <<[rev |-> decode(rev), time |-> date,
                                 author |-> match[2],
                                 state |-> decode_state(match[3])]>>,
                              l.log, l.eof, "") :
                      date \in {entry_date(match[1])}}) :
            l \in {log_loop(LogInit(fp))}})

\* rlog.py:346-353: an entry that begins with a line of a revision
entry_revision(fp, line) ==
    the({IF rev = <<>> \/ info = <<>> THEN Entry(fp, <<>>, <<>>, _EOF_LOG, "")
         ELSE the({entry_log([fp EXCEPT !.pos = @ + 1], rev, match) :
                      match \in {_re_log_info(info)}}) :
            rev \in {_re_rev(line)}, info \in {readline(fp)}})

\* _parse_log_entry, rlog.py:328-410
_parse_log_entry(fp) ==
    the({IF line = <<>> THEN Entry(fp, <<>>, <<>>, _EOF_LOG, "")
         ELSE IF line = LOG_END_MARKER
         THEN Entry([fp EXCEPT !.pos = @ + 1], <<>>, <<>>, _EOF_FILE, "")
         ELSE IF slice(line, 0, 8) = b(<<"r", "e", "v", "i", "s", "i", "o", "n">>)
         THEN entry_revision([fp EXCEPT !.pos = @ + 1], line)
         ELSE entry_log([fp EXCEPT !.pos = @ + 1], <<>>, <<>>) :
            line \in {readline(fp)}})

\* file_path of cvs2gitdump for a file of the root of the module: the name
\* of the RCS file without its ",v"
file_path(fname) ==
    IF Len(fname) >= 2 /\ SubSeq(fname, Len(fname) - 1, Len(fname)) = <<",", "v">>
    THEN SubSeq(fname, 1, Len(fname) - 2)
    ELSE fname

\* a local variable of parse_rlog that no statement has assigned yet
Unbound == [bound |-> FALSE, val |-> <<>>]

Bound(v) == [bound |-> TRUE, val |-> v]

\* RlogConv.__init__, rlog.py:63-66, and parse_rlog before its loop: at is
\* where parse_rlog is; fname, off and rev are its local variables of these
\* names; revisions holds for each key of revisions and logmsgs the tuple
\* and the log message; offsets holds the paths that have a dictionary and
\* the offsets in them.  History: hdr is where the last header began,
\* entries what each call of _parse_log_entry was given and returned.
RlogConvInit ==
    [at |-> "header", eof |-> NoEof, fname |-> Unbound, taginfo |-> {},
     lockinfo |-> {}, revisions |-> {}, off |-> Unbound, rev |-> Unbound,
     offsets |-> [paths |-> {}, at |-> {}], changesets |-> {},
     hdr |-> 0, entries |-> <<>>, raised |-> ""]

\* rlog.py:85-92: the loop of _process_rlog_entry before its first pass
FltInit(revisions) ==
    [revs |-> sorted_revs(revisions), st |-> FilterInit, done |-> <<>>,
     raised |-> ""]

\* no rlog is being parsed
RlogIdle ==
    /\ flt = FltInit({})
    /\ rlog_fp = [lines |-> <<>>, pos |-> 1]
    /\ rlconv = RlogConvInit

\* the revisions of the file as _process_rlog_entry reads them: v[1], v[2],
\* v[3], logmsgs[k] and v[6], which _parse_log_entry leaves None
rlog_revisions(path, revisions) ==
    {[path |-> path, rev |-> rev_numbers(v.rev), time |-> v.time,
      author |-> decode(v.author), log |-> v.log, state |-> v.state,
      commitid |-> None] : v \in revisions}

\* the revisions before the first one whose branch has no label
RECURSIVE labelled(_)
labelled(revs) ==
    IF revs = <<>> THEN <<>>
    ELSE IF branches(SubSeq(Head(revs).rev, 1, Len(Head(revs).rev) - 1)) = "KeyError"
    THEN <<>>
    ELSE <<Head(revs)>> \o labelled(Tail(revs))

\* rlog.py:167-173 and the test of the loop at 149, when a file record has
\* been read: the states parse_rlog can be in next
end_of_record(rc) ==
    LET path == file_path(rc.fname.val)
        with_path == [rc EXCEPT !.offsets.paths = @ \union {path}]
        with_offset ==
            IF rc.rev.val = <<>> THEN with_path
            ELSE [with_path EXCEPT !.offsets.at =
                     {o \in @ : o[1] # path \/ o[2] # rc.rev.val[1].rev}
                         \union {<<path, rc.rev.val[1].rev, rc.off.val>>}]
        emitted == emitted_revs(sorted_revs(rlog_revisions(path, rc.revisions)),
                                FilterInit)
    IN  IF rc.eof \in {_EOF_LOG, _EOF_ERROR} THEN {[rc EXCEPT !.at = "returned"]}
        ELSE IF ~rc.fname.bound
        THEN {[rc EXCEPT !.at = "raised", !.raised = "UnboundLocalError"]}
        ELSE IF ~rc.rev.bound
        THEN {[with_path EXCEPT !.at = "raised", !.raised = "UnboundLocalError"]}
        ELSE IF rc.taginfo # {}
        THEN {[with_offset EXCEPT !.at = "raised", !.raised = "TypeError"]}
        ELSE {[with_offset EXCEPT
                  !.changesets = cs,
                  !.at = IF labelled(emitted) = emitted THEN "header" ELSE "raised",
                  !.raised = IF labelled(emitted) = emitted THEN "" ELSE "KeyError"] :
                 cs \in put_revs(path, labelled(emitted), {rc.changesets})}

\* parse_rlog, rlog.py:149-160 and, when the header ends the record, 167-173
parse_header ==
    /\ rlconv.at = "header"
    /\ LET h == _parse_log_header(HeaderInit(rlog_fp))
           rc == [rlconv EXCEPT
                     !.eof = h.eof, !.taginfo = h.taginfo,
                     !.lockinfo = h.lockinfo, !.revisions = {},
                     !.hdr = rlog_fp.pos,
                     !.fname = IF h.filename # <<>>
                               THEN Bound(decode(h.filename)) ELSE @]
       IN  /\ rlog_fp' = h.fp
           /\ IF h.raised # ""
              THEN rlconv' = [rlconv EXCEPT !.at = "raised", !.raised = h.raised]
              ELSE IF h.eof = NoEof THEN rlconv' = [rc EXCEPT !.at = "entry"]
              ELSE rlconv' \in end_of_record(rc)
    /\ UNCHANGED <<flt, wirevars, loadervars>>

\* parse_rlog, rlog.py:161-166 and, when the entry ends the record, 167-173
parse_entry ==
    /\ rlconv.at = "entry"
    /\ LET e == _parse_log_entry(rlog_fp)
           rc == [rlconv EXCEPT
                     !.off = Bound(rlog_fp.pos), !.rev = Bound(e.rev),
                     !.eof = e.eof,
                     !.entries = Append(@, [off |-> rlog_fp.pos, rev |-> e.rev,
                                            logmsg |-> e.logmsg, eof |-> e.eof]),
                     !.revisions =
                         IF e.rev = <<>> THEN @
                         ELSE {v \in @ : v.rev # e.rev[1].rev}
                                  \union {[rev |-> e.rev[1].rev,
                                           time |-> e.rev[1].time,
                                           author |-> e.rev[1].author,
                                           state |-> e.rev[1].state,
                                           log |-> e.logmsg]}]
       IN  /\ rlog_fp' = e.fp
           /\ IF e.raised # ""
              THEN rlconv' = [rlconv EXCEPT !.at = "raised", !.raised = e.raised]
              ELSE IF e.eof = NoEof THEN rlconv' = rc
              ELSE rlconv' \in end_of_record(rc)
    /\ UNCHANGED <<flt, wirevars, loadervars>>

(***************************************************************************)
(* The visit.  BaseLoader.load (swh.loader.core) drives the loader:        *)
(* prepare(), then fetch_data() and store_data() in turn until a           *)
(* fetch_data() returned False and its store_data() ran, then the visit    *)
(* status and load_status(); an exception ends the visit as failed, a      *)
(* NotFound as not_found.  pc and more_data are the place in that loop.    *)
(***************************************************************************)

\* CvsLoader.__init__, loader.py:63-109
LoaderInit ==
    /\ pc = "prepare"
    /\ more_data = FALSE
    /\ cvs_changesets = <<>>
    /\ gen = [next |-> 1, alive |-> FALSE]
    /\ worktree = <<>>
    /\ offsets = {}
    /\ last_revision = <<>>
    /\ load_status = "uneventful"
    /\ pending = NoPending
    /\ snapshot = <<>>
    /\ computed = <<>>
    /\ sink_log = <<>>

InitOn(repos) ==
    /\ repo \in repos
    /\ storage = NoStorage
    /\ visit = 1
    /\ scheme \in Schemes
    /\ results = <<>>
    /\ LoaderInit
    /\ cl_todo = {}
    /\ cl_changesets = {}
    /\ url_path = TRUE
    /\ cvsroot_path = TRUE
    /\ tempdirs = {}
    /\ WireIdle
    /\ RlogIdle

\* loader.py:321-331: prepare makes the working tree, and the CVS root when
\* none was given, with mkdtemp
mkdtemp ==
    {<<visit, "worktree">>}
        \cup (IF cvsroot_path THEN {} ELSE {<<visit, "cvsroot">>})

\* loader.py:351-372: os.walk of self.cvsroot_path finds no RCS file; a CVS
\* root that prepare made itself is empty
no_rcsfile == repo = {} \/ ~cvsroot_path

Init == InitOn(Repos({FALSE}))

\* loader.py:373-377: a file:// origin without any RCS file.  The message of
\* the NotFound has two %s and is given one string: building it raises
\* TypeError, and the visit ends as one that failed.
prepare_not_found ==
    /\ pc = "prepare"
    /\ url_path
    /\ scheme = "file"
    /\ no_rcsfile
    /\ tempdirs' = tempdirs \cup mkdtemp
    /\ pc' = "raised"
    /\ UNCHANGED <<rlvars, wirevars, clvars, envvars, repo, storage, sink_log, visit, scheme, more_data, cvs_changesets,
                   gen, worktree, offsets, last_revision, load_status, pending,
                   snapshot, computed, results>>

\* the list prepare leaves in self.cvs_changesets, loader.py:401 and 420
prepared(cs) == sorted(cs)

\* CvsLoader.prepare, loader.py:317-427
prepare ==
    /\ pc = "prepare"
    /\ url_path
    /\ scheme \in Schemes
    /\ ~(scheme = "file" /\ no_rcsfile)
    /\ tempdirs' = tempdirs \cup mkdtemp
    /\ \E order \in Orders(FilesOf(repo)) :
         \E cs \in (IF scheme = "file" THEN CvsConv_walk(order) ELSE parse_rlog(order)) :
           \E s \in prepared(cs) :
              cvs_changesets' = s
    /\ offsets' = IF scheme = "file" THEN {} ELSE parse_rlog_offsets
    /\ last_revision' = <<>>
    /\ load_status' = "uneventful"
    /\ gen' = [next |-> 1, alive |-> TRUE]
    /\ worktree' = <<>>
    /\ pc' = "fetch"
    /\ UNCHANGED <<rlvars, wirevars, clvars, envvars, repo, storage, sink_log, visit, scheme, more_data, pending,
                   snapshot, computed, results>>

\* fetch_data, loader.py:429-440, when next() raises StopIteration
fetch_data_stop ==
    /\ pc = "fetch"
    /\ ~gen.alive \/ gen.next > Len(cvs_changesets)
    /\ gen' = [gen EXCEPT !.alive = FALSE]
    /\ more_data' = FALSE
    /\ pc' = "store"
    /\ UNCHANGED <<rlvars, wirevars, clvars, envvars, tempdirs, repo, storage, sink_log, visit, scheme, cvs_changesets, worktree,
                   offsets, last_revision, load_status, pending, snapshot, computed,
                   results>>

\* fetch_data when the generator raises inside the changeset: the exception is
\* logged, the generator is finished, the working tree keeps what was written
fetch_data_raises ==
    /\ pc = "fetch"
    /\ gen.alive /\ gen.next <= Len(cvs_changesets)
    /\ LET res == apply_revs(cvs_changesets[gen.next], 1, "", worktree)
       IN /\ ~res.ok
          /\ worktree' = res.wt
    /\ gen' = [gen EXCEPT !.alive = FALSE]
    /\ more_data' = FALSE
    /\ pc' = "store"
    /\ UNCHANGED <<rlvars, wirevars, clvars, envvars, tempdirs, repo, storage, sink_log, visit, scheme, cvs_changesets, offsets,
                   last_revision, load_status, pending, snapshot, computed, results>>

\* loader.py:129-133
next_load_status(status, revision) ==
    IF status = "uneventful" /\ RevId(revision) \notin storage.revision
    THEN "eventful" ELSE status

\* fetch_data when the generator yields: the changeset is applied
\* (loader.py:145-181, 192-229), compute_swh_revision (loader.py:111-134)
\* builds the revision, iter_directory lists the tree (loader.py:245-250)
fetch_data_yields ==
    /\ pc = "fetch"
    /\ gen.alive /\ gen.next <= Len(cvs_changesets)
    /\ LET k == cvs_changesets[gen.next]
           res == apply_revs(k, 1, "", worktree)
           revision == build_swh_revision(k, res.logmsg, res.wt,
                                          revision_parents(last_revision))
       IN /\ res.ok
          /\ worktree' = res.wt
          /\ last_revision' = <<revision>>
          /\ load_status' = next_load_status(load_status, revision)
          /\ pending' = [contents |-> {res.wt[q] : q \in DOMAIN res.wt},
                         directories |-> {res.wt},
                         revisions |-> <<revision>>]
          /\ computed' = Append(computed,
                 [revision |-> revision,
                  absent |-> RevId(revision) \notin storage.revision])
    /\ gen' = [gen EXCEPT !.next = @ + 1]
    /\ more_data' = TRUE
    /\ pc' = "store"
    /\ UNCHANGED <<rlvars, wirevars, clvars, envvars, tempdirs, repo, storage, sink_log, visit, scheme, cvs_changesets, offsets,
                   snapshot, results>>

fetch_data == fetch_data_stop \/ fetch_data_raises \/ fetch_data_yields

\* one call on the storage; `at` notes how many revisions the visit had
\* computed when the call was made
SinkCall(op, arg) == [op |-> op, arg |-> arg, at |-> Len(computed)]

\* the four adds with the revisions first
store_adds_revision_first ==
    <<SinkCall("revision_add", {RevId(pending.revisions[i]) :
                                   i \in 1..Len(pending.revisions)}),
      SinkCall("skipped_content_add", {}),
      SinkCall("content_add", pending.contents),
      SinkCall("directory_add", pending.directories)>>

\* loader.py:496-499: the four adds of store_data, in their order
store_adds ==
    <<SinkCall("skipped_content_add", {}),
      SinkCall("content_add", pending.contents),
      SinkCall("directory_add", pending.directories),
      SinkCall("revision_add", {RevId(pending.revisions[i]) :
                                   i \in 1..Len(pending.revisions)})>>

stored ==
    [storage EXCEPT !.content = @ \cup pending.contents,
                    !.directory = @ \cup pending.directories,
                    !.revision = @ \cup {RevId(pending.revisions[i]) :
                                            i \in 1..Len(pending.revisions)}]

\* store_data, loader.py:494-507, with generate_and_load_snapshot,
\* loader.py:473-492
store_data_snapshot ==
    /\ pc = "store"
    /\ last_revision # <<>>
    /\ LET snap == Snapshot(last_revision[1])
       IN /\ sink_log' = sink_log \o store_adds
                           \o <<SinkCall("snapshot_add", {snap})>>
          /\ storage' = [stored EXCEPT !.snapshot = @ \cup {snap}]
          /\ snapshot' = <<snap>>
    /\ pending' = NoPending
    /\ pc' = IF more_data THEN "fetch" ELSE "end"
    /\ UNCHANGED <<rlvars, wirevars, clvars, envvars, tempdirs, repo, visit, scheme, more_data, cvs_changesets, gen, worktree,
                   offsets, last_revision, load_status, computed, results>>

\* store_data when self._last_revision is None: revision.id raises
\* AttributeError at loader.py:486, after the four adds
store_data_raises ==
    /\ pc = "store"
    /\ last_revision = <<>>
    /\ sink_log' = sink_log \o store_adds
    /\ storage' = stored
    /\ pc' = "raised"
    /\ UNCHANGED <<rlvars, wirevars, clvars, envvars, tempdirs, repo, visit, scheme, more_data, cvs_changesets, gen, worktree,
                   offsets, last_revision, load_status, pending, snapshot, computed,
                   results>>

store_data == store_data_snapshot \/ store_data_raises

\* CvsLoader.cleanup, loader.py:289-290: it logs, and removes nothing.
\* (pre_cleanup, loader.py:278-287, is for what processes now gone left.)
cleanup(dirs) == dirs

\* the end of load(): cleanup, the visit status (loader.py:514-515) and what load()
\* returns (loader.py:509-512, or the status of the exception)
load_end ==
    /\ pc \in {"end", "raised", "not_found"}
    /\ results' = Append(results,
          [scheme |-> scheme,
           visit_status |-> IF pc = "end" THEN "full"
                            ELSE IF pc = "raised" THEN "failed" ELSE "not_found",
           status |-> IF pc = "end" THEN load_status
                      ELSE IF pc = "raised" THEN "failed" ELSE "uneventful",
           revisions |-> [i \in 1..Len(computed) |-> RevId(computed[i].revision)],
           absent |-> \E i \in 1..Len(computed) : computed[i].absent,
           snapshot |-> snapshot])
    /\ tempdirs' = cleanup(tempdirs)
    /\ pc' = "done"
    /\ UNCHANGED <<rlvars, wirevars, clvars, envvars, repo, storage, sink_log, visit, scheme, more_data, cvs_changesets,
                   gen, worktree, offsets, last_revision, load_status, pending,
                   snapshot, computed>>

\* a further visit of the origin: a new loader on the same storage
new_visit ==
    /\ pc = "done"
    /\ visit < MaxVisits
    /\ visit' = visit + 1
    /\ scheme' \in Schemes
    /\ pc' = "prepare"
    /\ more_data' = FALSE
    /\ cvs_changesets' = <<>>
    /\ gen' = [next |-> 1, alive |-> FALSE]
    /\ worktree' = <<>>
    /\ offsets' = {}
    /\ last_revision' = <<>>
    /\ load_status' = "uneventful"
    /\ pending' = NoPending
    /\ snapshot' = <<>>
    /\ computed' = <<>>
    /\ sink_log' = <<>>
    /\ UNCHANGED <<rlvars, wirevars, clvars, envvars, tempdirs, repo, storage, results>>

\* the NotFound of a URL without path raised as another exception
prepare_no_path_raises ==
    /\ pc = "prepare"
    /\ ~url_path
    /\ tempdirs' = tempdirs \cup mkdtemp
    /\ pc' = "raised"
    /\ UNCHANGED <<rlvars, wirevars, clvars, envvars, repo, storage, sink_log, visit, scheme, more_data,
                   cvs_changesets, gen, worktree, offsets, last_revision,
                   load_status, pending, snapshot, computed, results>>

\* loader.py:332-338: the origin URL has no path, prepare raises NotFound
prepare_no_path ==
    /\ pc = "prepare"
    /\ ~url_path
    /\ tempdirs' = tempdirs \cup mkdtemp
    /\ pc' = "not_found"
    /\ UNCHANGED <<rlvars, wirevars, clvars, envvars, repo, storage, sink_log, visit, scheme, more_data,
                   cvs_changesets, gen, worktree, offsets, last_revision,
                   load_status, pending, snapshot, computed, results>>

\* loader.py:341-347, 407, 426-427: the scheme is none of those prepare
\* knows, prepare raises NotFound
prepare_invalid_scheme ==
    /\ pc = "prepare"
    /\ url_path
    /\ scheme \notin Schemes
    /\ tempdirs' = tempdirs \cup mkdtemp
    /\ pc' = "not_found"
    /\ UNCHANGED <<rlvars, wirevars, clvars, envvars, repo, storage, sink_log, visit, scheme, more_data,
                   cvs_changesets, gen, worktree, offsets, last_revision,
                   load_status, pending, snapshot, computed, results>>

Next == prepare_not_found \/ prepare \/ fetch_data \/ store_data \/ load_end \/ new_visit

Spec == Init /\ [][Next]_vars

\* the same visits of repositories whose first revision of a holds $Id$
InitKw == InitOn(Repos({TRUE}))

SpecKw == InitKw /\ [][Next]_vars

\* the same visits of repositories whose revisions carry commitids
InitCid == InitOn(ReposCid)

SpecCid == InitCid /\ [][Next]_vars

\* visits with every kind of origin URL, with and without a cvsroot_path
InitUrl ==
    /\ repo \in ReposCid
    /\ storage = NoStorage
    /\ visit = 1
    /\ scheme \in UrlSchemes
    /\ results = <<>>
    /\ LoaderInit
    /\ cl_todo = {}
    /\ cl_changesets = {}
    /\ url_path \in BOOLEAN
    /\ cvsroot_path \in BOOLEAN
    /\ tempdirs = {}
    /\ WireIdle
    /\ RlogIdle

NextUrl == prepare_no_path \/ prepare_invalid_scheme \/ Next

SpecUrl == InitUrl /\ [][NextUrl]_vars

(***************************************************************************)
(* The clusterer alone: the file revisions that pass the filter of         *)
(* _process_rlog_entry are put into self.changesets one at a time, in any  *)
(* order.                                                                  *)
(***************************************************************************)

\* the revisions of the repository that reach rlog.py:129
Emitted(r) ==
    UNION {LET e == emitted_revs(sorted_revs(RevisionsOf(r, p)), FilterInit)
           IN {e[i] : i \in 1..Len(e)} : p \in FilesOf(r)}

InitCluster ==
    /\ repo \in Repos({FALSE})
    /\ storage = NoStorage
    /\ visit = 1
    /\ scheme = "file"
    /\ results = <<>>
    /\ LoaderInit
    /\ cl_todo = Emitted(repo)
    /\ cl_changesets = {}
    /\ url_path = TRUE
    /\ cvsroot_path = TRUE
    /\ tempdirs = {}
    /\ WireIdle
    /\ RlogIdle

\* rlog.py:129-141 for one file revision
put_revision ==
    /\ \E v \in cl_todo :
          /\ \E d \in merge_loop(revision_key(v.path, v), cl_changesets) :
                cl_changesets' = d
          /\ cl_todo' = cl_todo \ {v}
    /\ UNCHANGED <<rlvars, wirevars, envvars, tempdirs, repo, storage, sink_log, visit, scheme, pc,
                   more_data, cvs_changesets, gen, worktree, offsets, last_revision,
                   load_status, pending, snapshot, computed, results>>

NextCluster == put_revision

SpecCluster == InitCluster /\ [][NextCluster]_vars

(***************************************************************************)
(* The filter alone: the loop of _process_rlog_entry, rlog.py:93-141, over *)
(* the revisions of one file, one pass at a time.                          *)
(***************************************************************************)
FilterOptions(rev, times, states) ==
    {[path |-> "a", rev |-> rev, time |-> t, author |-> "alice", log |-> "fix",
      state |-> st, commitid |-> None, kw |-> FALSE] :
        t \in times, st \in states}

\* 1.1, 1.1.1.1, 1.1.1.2 and 1.2 at any time, alive or dead, each present or
\* not, and at most one of the branch revision 1.2.2.1 and the revision 2.1
FilterFiles ==
    {s1 \cup s2 \cup s3 \cup s4 \cup s5 :
        s1 \in Optional(FilterOptions(<<1, 1>>, Times, {"Exp", "dead"})),
        s2 \in Optional(FilterOptions(<<1, 1, 1, 1>>, Times, {"Exp", "dead"})),
        s3 \in Optional(FilterOptions(<<1, 1, 1, 2>>, Times, {"Exp", "dead"})),
        s4 \in Optional(FilterOptions(<<1, 2>>, Times, {"Exp", "dead"})),
        s5 \in Optional(FilterOptions(<<1, 2, 2, 1>>, {0}, {"Exp"})
                           \cup FilterOptions(<<2, 1>>, {MaxTick * TimeStep}, {"Exp"}))}

InitFilter ==
    /\ repo \in FilterFiles
    /\ storage = NoStorage
    /\ visit = 1
    /\ scheme = "pserver"
    /\ results = <<>>
    /\ LoaderInit
    /\ cl_todo = {}
    /\ cl_changesets = {}
    /\ url_path = TRUE
    /\ cvsroot_path = TRUE
    /\ tempdirs = {}
    /\ WireIdle
    /\ flt = FltInit(repo)
    /\ rlog_fp = [lines |-> <<>>, pos |-> 1]
    /\ rlconv = RlogConvInit

\* rlog.py:93-141: one pass of the loop.  A revision that passes the filter
\* is put into self.changesets under the label of its branch; a branch
\* that has no label raises KeyError (rlog.py:133).
process_revision ==
    /\ flt.revs # <<>>
    /\ flt.raised = ""
    /\ LET v == Head(flt.revs)
           f == filter_step(flt.st, v)
       IN  IF ~f.emit
           THEN /\ flt' = [flt EXCEPT !.revs = Tail(@), !.st = f.st,
                              !.done = Append(@, [v |-> v, emit |-> FALSE])]
                /\ UNCHANGED cl_changesets
           ELSE IF branches(SubSeq(v.rev, 1, Len(v.rev) - 1)) = "KeyError"
           THEN /\ flt' = [flt EXCEPT !.raised = "KeyError"]
                /\ UNCHANGED cl_changesets
           ELSE /\ \E d \in merge_loop(revision_key(v.path, v), cl_changesets) :
                      cl_changesets' = d
                /\ flt' = [flt EXCEPT !.revs = Tail(@), !.st = f.st,
                              !.done = Append(@, [v |-> v, emit |-> TRUE])]
    /\ UNCHANGED <<rlog_fp, rlconv, wirevars, envvars, tempdirs, repo, storage,
                   sink_log, visit, scheme, pc, more_data, cvs_changesets, gen,
                   worktree, offsets, last_revision, load_status, pending,
                   snapshot, computed, results, cl_todo>>

NextFilter == process_revision

SpecFilter == InitFilter /\ [][NextFilter]_vars

(***************************************************************************)
(* The wire client alone: one CVSClient is constructed against a pserver   *)
(* and then asked for the rlog or for one file, the bytes of each reply    *)
(* arriving split over the calls of recv in every way.                     *)
(***************************************************************************)
line(prefix, payload) == cat(prefix, cat(payload, run(NL, 1)))

SeqsUpTo2(S) == {<<>>} \cup {<<x>> : x \in S} \cup {<<x, y>> : x \in S, y \in S}

AuthReplies ==
    {I_LOVE_YOU,
     b(<<"I", " ", "H", "A", "T", "E", " ", "Y", "O", "U", NL>>),
     line(E_, run("x", 1)),
     <<>>}

\* the usual answer to Root
Handshake == cat(line(Valid_requests, run("x", 1)), ok)

HandshakeLines ==
    {line(Valid_requests, run("x", 1)),
     line(take(Valid_requests, 14), run("x", 1)),
     line(E_, run("x", 1)),
     line(b(<<"o", "k">>), run(" ", 1)),
     ok}

HandshakeReplies == {join(ls) : ls \in SeqsUpTo2(HandshakeLines)}

\* the lines of a reply to rlog that carry a payload
PayloadLines ==
    {line(M_, run("a", 1)),
     line(M_, <<>>),
     line(MT_text, run("t", 1)),
     line(MT_date, run("d", 1)),
     line(MT_newline, <<>>)}

RlogLines == PayloadLines \cup {line(E_, run("x", 1)), line(error_, <<>>)}

\* the payloads of the lines that are longer than the ones above
LongPayloads ==
    {CVS_PROTOCOL_BUFFER_SIZE - 3, CVS_PROTOCOL_BUFFER_SIZE - 1,
     2 * CVS_PROTOCOL_BUFFER_SIZE - 4}

RlogReplies ==
    SeqsUpTo2(RlogLines)
        \cup {<<line(M_, run("a", 1)), line(M_, run("x", n))>> : n \in LongPayloads}

\* the files a checkout is asked for
CheckoutData ==
    {<<>>,
     b(<<"a", NL>>),
     b(<<"a", NL, "b", NL>>),
     b(<<"a", "b">>),
     b(<<"a", NL, "b">>)}

\* the reply to co: the directory, the entry, the mode, the byte count, the
\* file, and the lines after that the server sends before ok
CheckoutReplyThen(data, after) ==
    join(<<line(Created, run("d", 1)),
           line(run("p", 1), <<>>),
           line(run("/", 1), cat(run("f", 1), kb_opt)),
           line(b(<<"u", "=">>), b(<<"r", "w">>)),
           line(run(Digits[len(data) + 1], 1), <<>>),
           data>> \o after \o <<ok>>)

CheckoutReply(data) == CheckoutReplyThen(data, <<>>)

\* lines after the file: a message, and a line of digits with a line more
LinesAfterData ==
    {<<line(M_, run("x", 1))>>,
     <<line(run("2", 1), <<>>), line(run("b", 1), <<>>)>>}

Served ==
    {Serve(a, Handshake, "rlog", ok, <<>>, <<>>) : a \in AuthReplies}
        \cup {Serve(I_LOVE_YOU, h, "rlog", ok, <<>>, <<>>) : h \in HandshakeReplies}
        \cup {Serve(I_LOVE_YOU, Handshake, "rlog", cat(join(ls), ok), ls, <<>>) :
                 ls \in RlogReplies}
        \cup {Serve(I_LOVE_YOU, Handshake, "co", CheckoutReply(d), <<>>, d) :
                 d \in CheckoutData}
        \cup {Serve(I_LOVE_YOU, Handshake, "co",
                    CheckoutReplyThen(b(<<"a", NL>>), after), after, b(<<"a", NL>>)) :
                 after \in LinesAfterData}

InitWire ==
    /\ repo = {}
    /\ storage = NoStorage
    /\ visit = 1
    /\ scheme = "pserver"
    /\ results = <<>>
    /\ LoaderInit
    /\ cl_todo = {}
    /\ cl_changesets = {}
    /\ url_path = TRUE
    /\ cvsroot_path = TRUE
    /\ tempdirs = {}
    /\ served \in Served
    /\ wire_in = <<>>
    /\ conn = ConnInit
    /\ client = ClientInit
    /\ sent = <<>>
    /\ RlogIdle

NextWire ==
    \/ connect_pserver
    \/ conn_recv
    \/ init_valid_requests
    \/ init_ok
    \/ fetch_rlog
    \/ fetch_rlog_response
    \/ checkout_co
    \/ checkout_data
    \/ checkout_response

SpecWire == InitWire /\ [][NextWire]_vars

(***************************************************************************)
(* The wire client against a server that closes the connection before the  *)
(* reply is complete: every proper prefix of a reply to rlog and of a      *)
(* reply to co.                                                            *)
(***************************************************************************)
Prefixes(x) == {take(x, k) : k \in 0..(len(x) - 1)}

ServedEof ==
    {Serve(I_LOVE_YOU, Handshake, "rlog", p, <<>>, <<>>) :
        p \in Prefixes(cat(line(M_, run("a", 1)), ok))}
        \cup {Serve(I_LOVE_YOU, Handshake, "co", p, <<>>, b(<<"a", NL, "b", NL>>)) :
                 p \in Prefixes(CheckoutReply(b(<<"a", NL, "b", NL>>)))}

InitEof ==
    /\ repo = {}
    /\ storage = NoStorage
    /\ visit = 1
    /\ scheme = "pserver"
    /\ results = <<>>
    /\ LoaderInit
    /\ cl_todo = {}
    /\ cl_changesets = {}
    /\ url_path = TRUE
    /\ cvsroot_path = TRUE
    /\ tempdirs = {}
    /\ served \in ServedEof
    /\ wire_in = <<>>
    /\ conn = ConnInit
    /\ client = ClientInit
    /\ sent = <<>>
    /\ RlogIdle

SpecEof == InitEof /\ [][NextWire]_vars

(***************************************************************************)
(* The buffered reader alone: a caller that calls conn_read_line again and *)
(* again, each time for a line or for raw bytes, on a stream the server    *)
(* sends before it closes the connection.  sent notes what each call asked *)
(* for, client.fp what each call returned.                                 *)
(***************************************************************************)
Streams ==
    {b(<<"a", NL, "b", NL>>),
     b(<<"a", CR, "b", NL>>),
     b(<<"a", CR, NL, "b", NL>>),
     b(<<"a", NL, "b">>),
     b(<<"a", "b">>),
     b(<<NL, NL>>),
     cat(run("x", CVS_PROTOCOL_BUFFER_SIZE), b(<<"y", NL, "z", NL>>))}

InitReader ==
    /\ repo = {}
    /\ storage = NoStorage
    /\ visit = 1
    /\ scheme = "pserver"
    /\ results = <<>>
    /\ LoaderInit
    /\ cl_todo = {}
    /\ cl_changesets = {}
    /\ url_path = TRUE
    /\ cvsroot_path = TRUE
    /\ tempdirs = {}
    /\ served \in {Serve(<<>>, <<>>, "read", s, <<>>, <<>>) : s \in Streams}
    /\ wire_in = served.reply
    /\ conn = ConnInit
    /\ client = [ClientInit EXCEPT !.pc = "read"]
    /\ sent = <<>>
    /\ RlogIdle

\* a call of conn_read_line, cvsclient.py:121-125
reader_call ==
    /\ client.pc = "read"
    /\ ~conn.reading
    /\ conn.ret.kind = "none"
    /\ \E require_newline \in BOOLEAN :
          /\ conn' = conn_read_line(conn, require_newline)
          /\ sent' = Append(sent, IF require_newline THEN "line" ELSE "raw")
    /\ UNCHANGED <<rlvars, loadervars, served, wire_in, client>>

\* the caller takes what the call returned; it stops at None and at an
\* exception
reader_return ==
    /\ returned("read")
    /\ IF conn.ret.kind = "line"
       THEN /\ client' = [client EXCEPT !.fp = Append(@, response)]
            /\ conn' = [conn EXCEPT !.ret = NoRet]
       ELSE IF conn.ret.kind = "None"
       THEN client' = [client EXCEPT !.pc = "returned"] /\ UNCHANGED conn
       ELSE client' = raise(client, conn.ret.kind) /\ UNCHANGED conn
    /\ UNCHANGED <<rlvars, loadervars, served, wire_in, sent>>

NextReader == reader_call \/ conn_recv \/ reader_return

SpecReader == InitReader /\ [][NextReader]_vars

(***************************************************************************)
(* scramble_password, cvsclient.py:35-56.  A str is the sequence of the    *)
(* code points of its characters: ord(c) is the code point and '%c' % n    *)
(* the character whose code point is n.                                    *)
(***************************************************************************)
\* cvsclient.py:37-53; scramble_shifts[n] of Python is scramble_shifts[n + 1]
scramble_shifts ==
    <<
      0, 1, 2, 3, 4, 5, 6, 7, 8, 9, 10, 11, 12, 13, 14, 15,
      16, 17, 18, 19, 20, 21, 22, 23, 24, 25, 26, 27, 28, 29, 30, 31,
      114, 120, 53, 79, 96, 109, 72, 108, 70, 64, 76, 67, 116, 74, 68, 87,
      111, 52, 75, 119, 49, 34, 82, 81, 95, 65, 112, 86, 118, 110, 122, 105,
      41, 57, 83, 43, 46, 102, 40, 89, 38, 103, 45, 50, 42, 123, 91, 35,
      125, 55, 54, 66, 124, 126, 59, 47, 92, 71, 115, 78, 88, 107, 106, 56,
      36, 121, 117, 104, 101, 100, 69, 73, 99, 63, 94, 93, 39, 37, 61, 48,
      58, 113, 32, 90, 44, 98, 60, 51, 33, 97, 62, 77, 84, 80, 85, 223,
      225, 216, 187, 166, 229, 189, 222, 188, 141, 249, 148, 200, 184, 136, 248, 190,
      199, 170, 181, 204, 138, 232, 218, 183, 255, 234, 220, 247, 213, 203, 226, 193,
      174, 172, 228, 252, 217, 201, 131, 230, 197, 211, 145, 238, 161, 179, 160, 212,
      207, 221, 254, 173, 202, 146, 224, 151, 140, 196, 205, 130, 135, 133, 143, 246,
      192, 159, 244, 239, 185, 168, 215, 144, 139, 165, 180, 157, 147, 186, 214, 176,
      227, 231, 219, 169, 175, 156, 206, 198, 129, 164, 150, 210, 154, 177, 134, 127,
      182, 128, 158, 208, 162, 132, 167, 209, 149, 241, 153, 251, 237, 236, 171, 195,
      243, 233, 253, 240, 194, 250, 191, 155, 142, 137, 245, 235, 163, 242, 178, 152
    >>

\* the scheme byte 'A', cvsclient.py:36
SchemeA == 65

\* the password sent as it is after the scheme byte
scramble_password_plain(password) ==
    [raised |-> "", value |-> <<SchemeA>> \o password]

\* cvsclient.py:35-56: IndexError when a character has no entry in the table
scramble_password(password) ==
    IF \E i \in 1..Len(password) : password[i] + 1 > Len(scramble_shifts)
    THEN [raised |-> "IndexError", value |-> <<>>]
    ELSE [raised |-> "",
          value |-> <<SchemeA>> \o [i \in 1..Len(password) |->
                                       scramble_shifts[password[i] + 1]]]

\* the passwords of the model: up to MaxPassword characters out of NUL, 'a',
\* 'y', e acute and the euro sign, which is not Latin-1
MaxPassword == 2

PasswordChars == {0, 97, 121, 233, 8364}

Passwords ==
    UNION {[1..n -> PasswordChars] : n \in 0..MaxPassword}

\* two connections are made, each with its password: client.fp holds the
\* passwords and client.result what scramble_password gave for them
InitScramble ==
    /\ repo = {}
    /\ storage = NoStorage
    /\ visit = 1
    /\ scheme = "pserver"
    /\ results = <<>>
    /\ LoaderInit
    /\ cl_todo = {}
    /\ cl_changesets = {}
    /\ url_path = TRUE
    /\ cvsroot_path = TRUE
    /\ tempdirs = {}
    /\ served = Serve(<<>>, <<>>, "auth", <<>>, <<>>, <<>>)
    /\ wire_in = <<>>
    /\ conn = ConnInit
    /\ client \in {[ClientInit EXCEPT !.pc = "auth", !.fp = <<p, q>>] :
                      p \in Passwords, q \in Passwords}
    /\ sent = <<>>
    /\ RlogIdle

\* cvsclient.py:82: connect_pserver scrambles the password of the URL
scramble ==
    /\ client.pc = "auth"
    /\ Len(client.result) < Len(client.fp)
    /\ client' = [client EXCEPT
                     !.result = Append(@, scramble_password(
                                              client.fp[Len(client.result) + 1]))]
    /\ UNCHANGED <<rlvars, loadervars, served, wire_in, conn, sent>>

NextScramble == scramble

SpecScramble == InitScramble /\ [][NextScramble]_vars

(***************************************************************************)
(* The rlog parser alone: parse_rlog on the output of rlog for the file a  *)
(* and, or not, a file b after it.                                         *)
(***************************************************************************)
\* a line of text
text(chars) == cat(b(chars), run(NL, 1))

RCS_file(name) == cat(b(<<"R", "C", "S", " ", "f", "i", "l", "e", ":", " ">>),
                      text(<<name, ",", "v">>))

head_line == text(<<"h", "e", "a", "d", ":", " ", "1", ".", "2">>)

branch_line == text(<<"b", "r", "a", "n", "c", "h", ":">>)

locks_line ==
    join(<<b(<<"l", "o", "c", "k", "s", ":", " ", "s", "t", "r", "i", "c">>),
           text(<<"t">>)>>)

lock_entry == text(<<TAB, "b", "o", "b", ":", " ", "1", ".", "1">>)

symbolic_names_line ==
    join(<<b(<<"s", "y", "m", "b", "o", "l", "i", "c", " ", "n", "a", "m">>),
           text(<<"e", "s", ":">>)>>)

tag_entry == text(<<TAB, "T", ":", " ", "1", ".", "1">>)

keyword_line ==
    join(<<b(<<"k", "e", "y", "w", "o", "r", "d", " ", "s", "u", "b", "s">>),
           text(<<"t", "i", "t", "u", "t", "i", "o", "n", ":", " ", "k", "v">>)>>)

\* the header of a file, and the same with a lock and a symbolic name
PlainHeader(name) == <<RCS_file(name), head_line, branch_line, ENTRY_END_MARKER>>

TableHeader(name) ==
    <<RCS_file(name), head_line, branch_line, locks_line, lock_entry,
      symbolic_names_line, tag_entry, keyword_line, ENTRY_END_MARKER>>

\* what rlog prints for a file it cannot read
rlog_error_line ==
    join(<<b(<<"r", "l", "o", "g", ":", " ", "a", ",", "v", ":", " ", "N">>),
           b(<<"o", " ", "s", "u", "c", "h", " ", "f", "i", "l", "e", " ">>),
           text(<<"o", "r", " ", "d", "i", "r", "e", "c", "t", "o", "r", "y">>)>>)

\* the line that names a revision, and one that names none
RevisionLines(n) == {cat(b(<<"r", "e", "v", "i", "s", "i", "o", "n", " ", "1", ".">>),
                         text(<<n>>)),
                     text(<<"r", "e", "v", "i", "s", "i", "o", "n">>)}

\* the line after it: at 150 seconds in either format of the date (the
\* second an hour east of Greenwich), one with no author and no state, and
\* one whose year has two digits
date_line ==
    join(<<b(<<"d", "a", "t", "e", ":", " ", "1", "9", "7", "0", "/", "0">>),
           b(<<"1", "/", "0", "1", " ", "0", "0", ":", "0", "2", ":", "3">>),
           b(<<"0", ";", " ", " ", "a", "u", "t", "h", "o", "r", ":", " ">>),
           b(<<"a", "l", "i", "c", "e", ";", " ", " ", "s", "t", "a", "t">>),
           text(<<"e", ":", " ", "E", "x", "p", ";">>)>>)

zone_date_line ==
    join(<<b(<<"d", "a", "t", "e", ":", " ", "1", "9", "7", "0", "-", "0">>),
           b(<<"1", "-", "0", "1", " ", "0", "1", ":", "0", "2", ":", "3">>),
           b(<<"0", " ", "+", "0", "1", "0", "0", ";", " ", " ", "a", "u">>),
           b(<<"t", "h", "o", "r", ":", " ", "a", "l", "i", "c", "e", ";">>),
           b(<<" ", " ", "s", "t", "a", "t", "e", ":", " ", "E", "x", "p">>),
           b(<<";", " ", " ", "l", "i", "n", "e", "s", ":", " ", "+", "1">>),
           b(<<" ", "-", "1", ";", " ", " ", "c", "o", "m", "m", "i", "t">>),
           text(<<"i", "d", ":", " ", "c", "1">>)>>)

bad_date_line ==
    join(<<b(<<"d", "a", "t", "e", ":", " ", "1", "9", "7", "0", "/", "0">>),
           b(<<"1", "/", "0", "1", " ", "0", "0", ":", "0", "2", ":", "3">>),
           text(<<"0", ";">>)>>)

short_year_line ==
    join(<<b(<<"d", "a", "t", "e", ":", " ", "7", "0", "/", "0", "1", "/">>),
           b(<<"0", "1", " ", "0", "0", ":", "0", "2", ":", "3", "0", ";">>),
           b(<<" ", " ", "a", "u", "t", "h", "o", "r", ":", " ", "a", "l">>),
           b(<<"i", "c", "e", ";", " ", " ", "s", "t", "a", "t", "e", ":">>),
           text(<<" ", "E", "x", "p", ";">>)>>)

DateLines == {date_line, zone_date_line, bad_date_line, short_year_line}

\* log messages: one line, the same after the line of the branches of the
\* revision, and one whose second line begins with "branches:"
fix_line == text(<<"f", "i", "x">>)

branches_line ==
    join(<<b(<<"b", "r", "a", "n", "c", "h", "e", "s", ":", " ", " ", "1">>),
           text(<<".", "2", ".", "2", ";">>)>>)

LogMessages == {<<fix_line>>, <<branches_line, fix_line>>, <<fix_line, branches_line>>}

\* the record of file a: a header, revision 1.2 and, or not, revision 1.1
first_entry == <<text(<<"r", "e", "v", "i", "s", "i", "o", "n", " ", "1", ".", "1">>),
                 join(<<b(<<"d", "a", "t", "e", ":", " ", "1", "9", "7", "0", "/", "0">>),
           b(<<"1", "/", "0", "1", " ", "0", "0", ":", "0", "0", ":", "0">>),
           b(<<"0", ";", " ", " ", "a", "u", "t", "h", "o", "r", ":", " ">>),
           b(<<"a", "l", "i", "c", "e", ";", " ", " ", "s", "t", "a", "t">>),
           text(<<"e", ":", " ", "E", "x", "p", ";">>)>>),
                 fix_line>>

RecordsA ==
    {h \o <<r, d>> \o lg \o tl :
        h \in {PlainHeader("a"), TableHeader("a")},
        r \in RevisionLines("2"), d \in DateLines, lg \in LogMessages,
        tl \in {<<LOG_END_MARKER>>,
                <<ENTRY_END_MARKER>> \o first_entry \o <<LOG_END_MARKER>>}}
    \union {<<rlog_error_line>>, <<RCS_file("a"), LOG_END_MARKER>>}

\* the record of a file of which rlog selected no revision
HeaderOnly(name) == <<RCS_file(name), head_line, branch_line, LOG_END_MARKER>>

RecordsB ==
    {<<>>, PlainHeader("b") \o first_entry \o <<LOG_END_MARKER>>, HeaderOnly("b")}

RlogOutputs == {ra \o rb : ra \in RecordsA, rb \in RecordsB}

InitRlog ==
    /\ repo = {}
    /\ storage = NoStorage
    /\ visit = 1
    /\ scheme = "pserver"
    /\ results = <<>>
    /\ LoaderInit
    /\ cl_todo = {}
    /\ cl_changesets = {}
    /\ url_path = TRUE
    /\ cvsroot_path = TRUE
    /\ tempdirs = {}
    /\ WireIdle
    /\ flt = FltInit({})
    /\ rlog_fp \in {[lines |-> o, pos |-> 1] : o \in RlogOutputs}
    /\ rlconv = RlogConvInit

NextRlog == parse_header \/ parse_entry

SpecRlog == InitRlog /\ [][NextRlog]_vars

(***************************************************************************)
(* Properties of the visit                                                 *)
(***************************************************************************)

Calls(op) == {i \in 1..Len(sink_log) : sink_log[i].op = op}

\* C1: every revision computed in a visit carries a date (the max_time of
\* its changeset) that is not before the date of its parent
C1_AscendingMaxTime ==
    \A i \in 1..Len(computed) : \A j \in 1..Len(computed) :
        computed[i].revision.parents = <<RevId(computed[j].revision)>>
            => computed[i].revision.date >= computed[j].revision.date

\* two changesets of different authors, the interval of one strictly inside
\* that of the other, and both built into revisions
C1_Witness ==
    /\ Len(computed) = Len(cvs_changesets)
    /\ \E i \in 1..Len(cvs_changesets) : \E j \in 1..Len(cvs_changesets) :
          /\ cvs_changesets[i].author # cvs_changesets[j].author
          /\ cvs_changesets[i].min_time < cvs_changesets[j].min_time
          /\ cvs_changesets[j].max_time < cvs_changesets[i].max_time

\* C2: the revisions computed in a visit form a chain: the first has no
\* parent, each later one has the one computed just before it as its only parent
C2_LinearChain ==
    \A i \in 1..Len(computed) :
        computed[i].revision.parents =
            IF i = 1 THEN <<>> ELSE <<RevId(computed[i - 1].revision)>>

\* a second visit that has computed two revisions
C2_Witness == visit = 2 /\ Len(computed) >= 2

\* C3: a visit hands one snapshot to the storage, once, after the revision
\* of the last changeset: none between changesets
C3_SnapshotOnceAfterLast ==
    /\ Cardinality(Calls("snapshot_add")) <= 1
    /\ \A i \in Calls("snapshot_add") : \A j \in Calls("revision_add") :
          j > i => sink_log[j].arg = {}
    /\ pc = "end" => Cardinality(Calls("snapshot_add")) = 1

\* C4: every snapshot handed to the storage has the one branch HEAD, of
\* target type revision, aimed at the revision the visit computed last; none
\* is built before a revision was computed
C4_SnapshotTargetsLast ==
    \A i \in Calls("snapshot_add") : \A snap \in sink_log[i].arg :
        /\ sink_log[i].at >= 1
        /\ DOMAIN snap.branches = {"HEAD"}
        /\ snap.branches["HEAD"].target_type = "revision"
        /\ snap.branches["HEAD"].target = RevId(computed[sink_log[i].at].revision)

\* a snapshot handed over after the second revision
C4_Witness == \E i \in Calls("snapshot_add") : sink_log[i].at >= 2

\* C5: a revision reaches the storage after the directories of its tree,
\* those after its contents; a snapshot after the revision it aims at
C5_SinkOrder ==
    /\ \A i \in Calls("revision_add") : \A r \in sink_log[i].arg :
          \E jc \in Calls("content_add") : \E jd \in Calls("directory_add") :
             /\ jc < jd
             /\ jd < i
             /\ r.directory \in sink_log[jd].arg
             /\ \A q \in DOMAIN r.directory : r.directory[q] \in sink_log[jc].arg
    /\ \A i \in Calls("snapshot_add") : \A snap \in sink_log[i].arg :
          \E j \in Calls("revision_add") :
             j < i /\ snap.branches["HEAD"].target \in sink_log[j].arg

\* a revision with a file in its tree, and a snapshot, have reached the storage
C5_Witness ==
    /\ \E i \in Calls("revision_add") : \E r \in sink_log[i].arg :
          DOMAIN r.directory # {}
    /\ Calls("snapshot_add") # {}

\* what a visit computed: its revision ids and its snapshot
Outcome(res) == [revisions |-> res.revisions, snapshot |-> res.snapshot]

\* C6: two visits of the repository through the same scheme compute the
\* same sequence of revision ids and end with the same snapshot
C6_VisitsAgree ==
    \A i \in 1..Len(results) : \A j \in 1..Len(results) :
        results[i].scheme = results[j].scheme
            => Outcome(results[i]) = Outcome(results[j])

\* C7: the load status is eventful exactly when a revision computed in the
\* visit was absent from the storage when computed; the first visit of a
\* repository that is not empty ends eventful, and the visit repeated
\* through the same scheme ends uneventful
C7_EventfulIffAbsent ==
    /\ pc \in {"fetch", "store", "end"}
          => (load_status = "eventful"
                 <=> \E i \in 1..Len(computed) : computed[i].absent)
    /\ \A i \in 1..Len(results) :
          results[i].status = "eventful" <=> results[i].absent
    /\ Len(results) >= 1 /\ repo # {} => results[1].status = "eventful"
    /\ /\ Len(results) >= 2
       /\ repo # {}
       /\ results[1].scheme = results[2].scheme
       => results[2].status = "uneventful"

\* C8: a visit through the file scheme and one through the wire client
\* compute the same revisions (so the same trees at every changeset) and the
\* same snapshot, also when a file holds $Id$
C8_SchemesAgree ==
    \A i \in 1..Len(results) : \A j \in 1..Len(results) :
        results[i].scheme # results[j].scheme
            => Outcome(results[i]) = Outcome(results[j])

(***************************************************************************)
(* Properties of the clusterer                                             *)
(***************************************************************************)

\* C9: whatever was put so far, no changeset holds two revisions of one path
C9_NoPathTwice ==
    \A c \in cl_changesets : \A i \in 1..Len(c.revs) : \A j \in 1..Len(c.revs) :
        i # j => c.revs[i].path # c.revs[j].path

\* a set of changesets without the order of their file revisions
Canon(cs) ==
    {[branch |-> c.branch, author |-> c.author, log |-> c.log,
      commitid |-> c.commitid, min_time |-> c.min_time, max_time |-> c.max_time,
      revs |-> {c.revs[i] : i \in 1..Len(c.revs)}] : c \in cs}

\* the dicts parse_rlog can give when the files come in one fixed order
Reference == cluster_files(CHOOSE o \in Orders(FilesOf(repo)) : TRUE, repo, {{}})

\* C10: once every file revision is put, in whatever order, the changesets
\* (their file revisions, min_time and max_time) are those of the one fixed order
C10_Confluent ==
    cl_todo = {} => \A d \in Reference : Canon(d) = Canon(cl_changesets)

\* all put, and one changeset spans more than the fuzz: it was joined by a
\* revision that lies between two others
C10_Witness ==
    /\ cl_todo = {}
    /\ \E c \in cl_changesets :
          Len(c.revs) = 3 /\ c.max_time - c.min_time > CHANGESET_FUZZ_SEC

(***************************************************************************)
(* Properties of the visit, continued                                      *)
(***************************************************************************)

\* C11: the file revisions of one changeset all carry the same commitid:
\* revisions of different commitids are in different changesets, through
\* the file scheme and through the wire client
C11_CommitIdsSplit ==
    \A i \in 1..Len(cvs_changesets) :
        \A x \in 1..Len(cvs_changesets[i].revs) :
           \A y \in 1..Len(cvs_changesets[i].revs) :
              LET fx == cvs_changesets[i].revs[x]
                  fy == cvs_changesets[i].revs[y]
              IN RepoRev(fx.path, fx.rev).commitid = RepoRev(fy.path, fy.rev).commitid

\* the generator raised inside a changeset and fetch_data returned False
\* for it (loader.py:435-437)
generator_raised == ~gen.alive /\ gen.next <= Len(cvs_changesets)

\* C12: once an error was raised while a changeset was produced, the visit
\* does not end as a completed one, and the store_data that follows hands
\* no snapshot to the storage; what was stored before stays
C12_ErrorAborts ==
    generator_raised =>
        /\ pc # "end"
        /\ pc = "done" => results[Len(results)].visit_status # "full"
        /\ pc \in {"end", "raised", "done"} =>
              \/ sink_log = <<>>
              \/ sink_log[Len(sink_log)].op # "snapshot_add"
        /\ \A i \in Calls("revision_add") : sink_log[i].arg \subseteq storage.revision

\* whether prepare takes the URL of a visit for a CVS origin
valid_url(sch) == url_path /\ sch \in Schemes

\* C13: a visit whose URL has a scheme prepare does not know, or no path,
\* ends not_found with load status uneventful, and calls the storage never
C13_InvalidUrlNotFound ==
    /\ \A i \in 1..Len(results) :
          ~valid_url(results[i].scheme) =>
              /\ results[i].visit_status = "not_found"
              /\ results[i].status = "uneventful"
              /\ results[i].revisions = <<>>
              /\ results[i].snapshot = <<>>
    /\ ~valid_url(scheme) => sink_log = <<>> /\ storage = NoStorage

\* a visit of an http:// URL that has a path has ended
C13_Witness ==
    /\ pc = "done"
    /\ url_path
    /\ results[Len(results)].scheme = "http"

\* C14: a file:// visit of a CVS root without any RCS file ends not_found
C14_NoRcsFileNotFound ==
    \A i \in 1..Len(results) :
        results[i].scheme = "file" /\ url_path /\ no_rcsfile
            => results[i].visit_status = "not_found"

\* C15: when a visit has ended, whichever way, no temporary directory is left
C15_TempDirsRemoved == pc = "done" => tempdirs = {}

(***************************************************************************)
(* Properties of the wire client                                           *)
(***************************************************************************)

\* fetch_rlog or checkout was called and has returned or raised
ended == Len(sent) > 2 /\ client.pc \in {"returned", "raised"}

\* C16: for a well-formed reply to co (mode line, byte count N, N bytes of
\* file data, ok) checkout returns exactly those N bytes, however the reply
\* is split over the reads, also when the data does not end with a newline
C16_CheckoutExact ==
    served.op = "co" /\ served.lines = <<>> /\ ended
        => client.pc = "returned" /\ client.result = served.data

\* what a line of the reply to rlog contributes, its tag stripped
payload(l) ==
    IF startswith(l, M_) THEN drop(l, len(M_))
    ELSE IF startswith(l, MT_text) THEN slice(l, len(MT_text), -1)
    ELSE IF startswith(l, MT_date) THEN slice(l, len(MT_date), -1)
    ELSE IF startswith(l, MT_newline) THEN run(NL, 1)
    ELSE <<>>

\* C17: what fetch_rlog returns is the concatenation, in order, of the
\* payloads of the M, MT text, MT date and MT newline lines received before
\* ok; an M line with empty text contributes an empty line
C17_RlogPayloads ==
    served.op = "rlog" /\ client.pc = "returned"
        => client.result
               = join([i \in 1..Len(served.lines) |-> payload(served.lines[i])])

\* the lines of the answer to Root: the first begins with Valid-requests and
\* the second is ok
good_handshake ==
    LET ls == splitlines(served.handshake)
    IN  /\ Len(ls) >= 2
        /\ startswith(ls[1], Valid_requests)
        /\ ls[2] = ok

\* the constructor of CVSClient has returned
constructed == client.pc = "connected" \/ Len(sent) > 2

\* C18: the constructor of CVSClient returns only after a first line that
\* begins with Valid-requests and a second line ok; after any other answer
\* to Root, or none, it raises CVSProtocolError and neither rlog nor co is
\* ever written
C18_HandshakeChecked ==
    /\ constructed => good_handshake
    /\ sent = <<"AUTH", "Root">> /\ ~good_handshake
          => /\ client.pc \in {"Valid-requests", "ok", "raised"}
             /\ client.pc = "raised" => client.raised = "CVSProtocolError"
             /\ client.pc # "raised" => conn.reading \/ conn.ret.kind # "none"

C18_Witness ==
    /\ client.pc = "raised"
    /\ client.raised = "CVSProtocolError"
    /\ sent = <<"AUTH", "Root">>
    /\ startswith(served.handshake, Valid_requests)
    /\ ~good_handshake

\* C19: when the answer to the authentication request is not I LOVE YOU the
\* connection fails with a protocol error, which ends the visit as failed
\* and not as not_found, and Root is never written
C19_AuthFailureIsProtocolError ==
    served.auth # I_LOVE_YOU /\ client.pc = "raised"
        => client.raised = "CVSProtocolError" /\ sent = <<"AUTH">>

\* the server sends a line of more bytes than the protocol buffer holds
overlong == \E i \in 1..Len(served.lines) :
                len(served.lines[i]) - 1 > CVS_PROTOCOL_BUFFER_SIZE

\* C20: where a line is required, conn_read_line never returns a line of
\* more than 8192 bytes, and raises CVSProtocolError when the server sends
\* more than 8192 bytes without a newline, however the bytes are split over
\* the reads and whatever was carried over as an incomplete line
C20_OverlongRaises ==
    /\ conn.ret.kind = "line" /\ conn.require_newline
          => len(conn.ret.line) <= CVS_PROTOCOL_BUFFER_SIZE
    /\ overlong /\ ended => client.raised = "CVSProtocolError"

(***************************************************************************)
(* Properties of the rlog parser and of the working tree                   *)
(***************************************************************************)

\* C21: after parse_rlog, every revision parsed for a file has its offset in
\* offsets[path], and getlog(fp, path, rev) returns the log message that
\* was collected for it
C21_OffsetsForEveryRevision ==
    scheme = "pserver" /\ pc \in {"fetch", "store"}
        => \A v \in repo :
              /\ getlog_returns(v.path, v.rev)
              /\ getlog(v.path, v.rev) = v.log

\* C30: when the server closes the connection inside a reply to rlog or to
\* co, also after a part of a line, the method ends by raising
\* CVSProtocolError: it never loops forever and never returns
C30_EofRaises ==
    Len(sent) > 2
        => /\ conn.ret.kind # "hang"
           /\ client.pc \in {"returned", "raised"}
                 => client.raised = "CVSProtocolError"

\* the file revisions that are in a changeset of the clusterer
Placed ==
    UNION {{c.revs[i].rev : i \in 1..Len(c.revs)} : c \in cl_changesets}

\* the loop of _process_rlog_entry has ended without raising
filtered == flt.revs = <<>> /\ flt.raised = ""

\* C23: of the revisions 1.1 and 1.1.1.1 of a file at most one is put into
\* a changeset, whatever their timestamps and states
C23_OneInitialRevision == ~({<<1, 1>>, <<1, 1, 1, 1>>} \subseteq Placed)

C23_Witness ==
    /\ filtered
    /\ \E v \in repo : v.rev = <<1, 1>> /\ v.state = "Exp"
    /\ \E v \in repo : v.rev = <<1, 1, 1, 1>> /\ v.state = "Exp"
    /\ <<1, 1>> \in Placed

\* the passes of the loop are in ascending order of timestamp
ascending_passes ==
    \A i \in 1..Len(flt.done) : \A j \in 1..Len(flt.done) :
        i < j => flt.done[i].v.time <= flt.done[j].v.time

\* a 1.1.1.1 that is dead is never emitted
no_dead_import ==
    \A i \in 1..Len(flt.done) :
        flt.done[i].v.rev = <<1, 1, 1, 1>> /\ flt.done[i].v.state = "dead"
            => ~flt.done[i].emit

\* the pass i is that of a trunk revision 1.x, x other than 1
trunk_pass(i) ==
    /\ Len(flt.done[i].v.rev) = 2
    /\ flt.done[i].v.rev[1] = 1
    /\ flt.done[i].v.rev[2] # 1

\* the pass j is that of a revision 1.1.1.y
vendor_pass(j) ==
    /\ Len(flt.done[j].v.rev) = 4
    /\ SubSeq(flt.done[j].v.rev, 1, 3) = <<1, 1, 1>>

\* C24, as claimed: the passes are in ascending order of timestamp, no
\* revision 1.1.1.y that is processed after a trunk revision 1.x, x other
\* than 1, is emitted, and a dead 1.1.1.1 is never emitted
C24_NoVendorAfterTrunk ==
    /\ ascending_passes
    /\ no_dead_import
    /\ \A i \in 1..Len(flt.done) : \A j \in 1..Len(flt.done) :
          i < j /\ trunk_pass(i) /\ vendor_pass(j) => ~flt.done[j].emit

\* C24, amended: the same for the revisions 1.1.1.y with y other than 1
C24_NoLaterVendorAfterTrunk ==
    /\ ascending_passes
    /\ no_dead_import
    /\ \A i \in 1..Len(flt.done) : \A j \in 1..Len(flt.done) :
          i < j /\ trunk_pass(i) /\ vendor_pass(j)
                /\ flt.done[j].v.rev[4] # 1
              => ~flt.done[j].emit

C24_Witness ==
    /\ filtered
    /\ \E i \in 1..Len(flt.done) : \E j \in 1..Len(flt.done) :
          /\ i < j /\ trunk_pass(i) /\ vendor_pass(j)
          /\ flt.done[j].v.rev[4] # 1
          /\ flt.done[j].v.state = "Exp"
          /\ ~flt.done[j].emit

header_end(lines, hdr) ==
    CHOOSE i \in hdr..Len(lines) :
        /\ lines[i] = ENTRY_END_MARKER
        /\ \A j \in hdr..(i - 1) : lines[j] # ENTRY_END_MARKER

\* the tab-indented lines that follow, one after the other, the line of the
\* header that begins with prefix
indented_after(lines, hdr, prefix) ==
    {lines[j] : j \in {k \in hdr..header_end(lines, hdr) :
        \E i \in hdr..(k - 1) :
            /\ startswith(lines[i], prefix)
            /\ \A m \in (i + 1)..k : startswith(lines[m], run(TAB, 1))}}

\* C26: once _parse_log_header has read a header, the tag table maps the
\* name of every tab-indented entry after the line "symbolic names:" to its
\* revision, and the lock table holds every tab-indented entry after "locks:".
C26_TagAndLockTables ==
    rlconv.at = "entry" =>
        /\ rlconv.taginfo =
               {table_entry(l) :
                   l \in indented_after(rlog_fp.lines, rlconv.hdr,
                                        cat(b(<<"s", "y", "m", "b", "o", "l", "i", "c">>),
                                            b(<<" ", "n", "a", "m", "e", "s">>)))}
        /\ rlconv.lockinfo =
               {<<table_entry(l)[2], table_entry(l)[1]>> :
                   l \in indented_after(rlog_fp.lines, rlconv.hdr,
                                        b(<<"l", "o", "c", "k", "s", ":">>))}

\* the lines of the entry at off from its third one to the separator that
\* ends it, without a line of branches in the first place
RECURSIVE message_lines(_, _, _)
message_lines(lines, i, leading) ==
    IF i > Len(lines) \/ lines[i] \in {ENTRY_END_MARKER, LOG_END_MARKER} THEN <<>>
    ELSE IF leading /\ startswith(lines[i], b(<<"b", "r", "a", "n", "c", "h", "e", "s", ":">>))
    THEN message_lines(lines, i + 1, FALSE)
    ELSE <<lines[i]>> \o message_lines(lines, i + 1, FALSE)

\* C27: the log message _parse_log_entry returns is the concatenation, in
\* order, of the lines between the line of the date and the next separator,
\* but for a line of branches in the first place; a line that begins with
\* "branches:" further down is kept.
C27_LogMessage ==
    \A i \in 1..Len(rlconv.entries) :
        rlconv.entries[i].rev # <<>> =>
            rlconv.entries[i].logmsg =
                join(message_lines(rlog_fp.lines, rlconv.entries[i].off + 2, TRUE))

\* an rlog error line, or an entry whose first line names no revision or
\* whose second line gives no date, author and state
grammar_violation(lines) ==
    \E i \in 1..Len(lines) :
        \/ _re_log_error(lines[i]) # <<>>
        \/ cvsnt_error(lines[i])
        \/ /\ i > 1
           /\ lines[i - 1] = ENTRY_END_MARKER
           /\ lines[i] # LOG_END_MARKER
           /\ \/ ~startswith(lines[i], b(<<"r", "e", "v", "i", "s", "i", "o", "n">>))
              \/ _re_rev(lines[i]) = <<>>
              \/ i = Len(lines)
              \/ _re_log_info(lines[i + 1]) = <<>>

\* C22: parse_rlog does not return normally from an rlog output that holds
\* an rlog error line or an entry whose line of the revision or of the
\* date, author and state does not match the grammar.
C22_GrammarViolationRaises ==
    rlconv.at = "returned" => ~grammar_violation(rlog_fp.lines)

\* the lookup of the log message of the changeset raises, in the first pass
\* of the loop over its file revisions
changeset_fails(k) == ~getlog_returns(k.revs[1].path, k.revs[1].rev)

\* the working tree once the first i changesets have been applied
RECURSIVE tree_after(_)
tree_after(i) ==
    IF i = 0 THEN <<>>
    ELSE apply_revs(cvs_changesets[i], 1, "", tree_after(i - 1)).wt

\* C28: a revision is handed to the storage only when it was built, earlier,
\* from the tree that holds every file operation of its changeset; a
\* changeset whose file operations fail has no revision, neither in the
\* storage nor as the parent of a revision.
C28_CommitAfterTree ==
    /\ \A n \in 1..Len(sink_log) :
          sink_log[n].op = "revision_add" =>
              \A r \in sink_log[n].arg :
                  \E i \in 1..sink_log[n].at :
                      /\ RevId(computed[i].revision) = r
                      /\ ~changeset_fails(cvs_changesets[i])
                      /\ computed[i].revision.directory = tree_after(i)
    /\ \A i \in 1..Len(computed) :
          /\ i < gen.next
          /\ ~changeset_fails(cvs_changesets[i])
          /\ \A p \in 1..Len(computed[i].revision.parents) :
                \E j \in 1..(i - 1) :
                    computed[i].revision.parents[p] = RevId(computed[j].revision)

\* a revision was handed to the storage and the changeset after it failed
C28_Witness ==
    /\ \E n \in 1..Len(sink_log) :
          sink_log[n].op = "revision_add" /\ sink_log[n].arg # {}
    /\ ~gen.alive
    /\ gen.next <= Len(cvs_changesets)
    /\ changeset_fails(cvs_changesets[gen.next])
    /\ pc = "end"

\* the file revisions applied by the first n changesets, in the order of
\* their application
RECURSIVE applied(_)
applied(n) == IF n = 0 THEN <<>> ELSE applied(n - 1) \o cvs_changesets[n].revs

\* the place in fs of the last file revision of the path, 0 when it has none
last_applied(fs, path) ==
    IF \A i \in 1..Len(fs) : fs[i].path # path THEN 0
    ELSE CHOOSE i \in 1..Len(fs) :
             fs[i].path = path /\ \A j \in (i + 1)..Len(fs) : fs[j].path # path

\* the bytes the visit gets for a file revision: expanded from the RCS file,
\* or checked out from the server
revision_bytes(f) ==
    IF scheme = "file" THEN expand_keyword(RepoRev(f.path, f.rev))
    ELSE checkout(RepoRev(f.path, f.rev))

\* the loop over the file revisions of a changeset raised
changeset_failed == ~gen.alive /\ gen.next <= Len(cvs_changesets)

\* C29: once the visit has applied changesets, the working tree holds for
\* every path the bytes of the file revision of the path applied last, and
\* no file when that revision is dead or when no revision of the path was
\* applied (so a changeset leaves the files it does not name as they were).
C29_TreeHoldsLastRevisions ==
    pc \in {"fetch", "store", "end"} /\ ~changeset_failed =>
        \A path \in Paths :
            LET fs == applied(Len(computed))
                i == last_applied(fs, path)
            IN  IF i = 0 \/ fs[i].state = "dead"
                THEN path \notin DOMAIN worktree
                ELSE /\ path \in DOMAIN worktree
                     /\ worktree[path] = revision_bytes(fs[i])

\* the second changeset removed a path that was not in the tree, and left
\* the file of the first changeset
C29_Witness ==
    /\ Len(computed) = 2
    /\ \E i \in 1..Len(cvs_changesets[2].revs) :
          /\ cvs_changesets[2].revs[i].state = "dead"
          /\ \A j \in 1..Len(cvs_changesets[1].revs) :
                cvs_changesets[1].revs[j].path # cvs_changesets[2].revs[i].path
    /\ DOMAIN worktree # {}

\* the header of a file record begins at line i and the record ends with no
\* revision entry
header_only(lines, i) ==
    /\ startswith(lines[i], b(<<"R", "C", "S", " ", "f", "i", "l", "e", ":">>))
    /\ \E j \in (i + 1)..Len(lines) :
          /\ lines[j] = LOG_END_MARKER
          /\ \A k \in (i + 1)..(j - 1) :
                /\ lines[k] # ENTRY_END_MARKER
                /\ _re_log_error(lines[k]) = <<>>

\* the path of the file whose header line is at i
record_path(lines, i) ==
    file_path(decode(strip(drop(lines[i], 9))))

\* C37: a file record that has a header and no revision entry adds no
\* changeset and no offset entry: once parse_rlog has read it, offsets holds
\* no offset under the path of the file and no changeset holds a revision of
\* the file, whether the record is the first of the stream or follows
\* another one.
C37_HeaderOnlyAddsNothing ==
    \A i \in 1..Len(rlog_fp.lines) :
        header_only(rlog_fp.lines, i) /\ rlconv.hdr >= i /\ rlog_fp.pos > i
            => /\ \A o \in rlconv.offsets.at : o[1] # record_path(rlog_fp.lines, i)
               /\ \A c \in rlconv.changesets :
                     \A n \in 1..Len(c.revs) :
                        c.revs[n].path # record_path(rlog_fp.lines, i)

\* the seconds east of Greenwich of the zone [+-]HHMM, or Z
zone_seconds(z) ==
    LET e == expand(z)
        hhmm == int(b(SubSeq(e, 2, 3))) * 3600 + int(b(SubSeq(e, 4, 5))) * 60
    IN  IF e = <<"Z">> THEN 0
        ELSE IF e[1] = "-" THEN 0 - hhmm ELSE hhmm

\* the epoch second of the instant that a date of either format denotes
denoted_instant(timestr) ==
    LET w == words(timestr)
    IN  IF Len(w) = 3
        THEN timegm(strptime_fields(w[1], w[2], "-")) - zone_seconds(w[3])
        ELSE timegm(strptime_fields(w[1], w[2], "/"))

\* C38: the time of every revision that _parse_log_entry returned is the
\* UTC epoch second of the instant its date line denotes, the zone offset
\* of a date of the second format being taken off.
C38_TimestampIsUtcInstant ==
    \A n \in 1..Len(rlconv.entries) :
        rlconv.entries[n].rev # <<>>
            => rlconv.entries[n].rev[1].time =
                   denoted_instant(
                       _re_log_info(rlog_fp.lines[rlconv.entries[n].off + 1])[1])

\* C36: the message of the revision built for a changeset is the log message
\* of the first file revision of the changeset, read from the file of that
\* revision, also when the changeset holds several files and the message is
\* empty.
C36_MessageOfFirstRevision ==
    \A i \in 1..Len(computed) :
        computed[i].revision.message =
            RepoRev(cvs_changesets[i].revs[1].path, cvs_changesets[i].revs[1].rev).log

\* changesets that agree on branch, author, log and commit-id
same_fields(x, y) ==
    /\ x.branch = y.branch
    /\ x.author = y.author
    /\ x.log = y.log
    /\ x.commitid = y.commitid

\* C34: no two distinct changesets held by the clusterer are equal as keys:
\* any two of them with the same branch, author, log and commit-id have
\* time intervals more than fuzz_sec apart.
C34_NoEqualChangesets ==
    \A x \in cl_changesets :
        \A y \in cl_changesets \ {x} :
            same_fields(x, y)
                => \/ y.min_time - x.max_time > CHANGESET_FUZZ_SEC
                   \/ x.min_time - y.max_time > CHANGESET_FUZZ_SEC

\* every revision was put, one changeset took a second revision by a merge,
\* and another changeset with the same fields is held apart from it
C34_Witness ==
    /\ cl_todo = {}
    /\ \E x \in cl_changesets :
          /\ Len(x.revs) > 1
          /\ \E y \in cl_changesets \ {x} : same_fields(x, y)

\* C35: fetch_rlog never returns an rlog stream when the reply to the rlog
\* request holds an "error" response line: _parse_rlog_response raises
\* CVSProtocolError on the line after it.
C35_ErrorReplyRaises ==
    (/\ served.op = "rlog"
     /\ \E i \in 1..Len(served.lines) : slice(served.lines[i], 0, 7) = error_
     /\ ended)
        => client.pc = "raised" /\ client.raised = "CVSProtocolError"

\* C33: checkout returns only after the mode line and the line of the byte
\* count were received and ok followed the data; the file it returns holds
\* as many bytes as the one byte count the reply declared, and no line after
\* the file data is taken for a byte count.
C33_SingleByteCount ==
    served.op = "co"
        => /\ client.pc = "returned"
                 => /\ client.expect_bytecount
                    /\ client.have_bytecount
                    /\ len(client.result) = len(served.data)
           /\ client.bytecounts <= 1

\* the number of newline bytes of x
newlines(x) ==
    len(x) - len(SelectSeq(x, LAMBDA r : r.c # NL))

\* C31: every value conn_read_line returns to a call that requires a line
\* is one whole line: it ends with the newline byte and holds no other
\* newline byte, a carriage return inside the line not ending it.
C31_WholeLines ==
    served.op = "read"
        => \A i \in 1..Len(client.fp) :
              sent[i] = "line"
                  => /\ slice(client.fp[i], len(client.fp[i]) - 1, len(client.fp[i]))
                            = run(NL, 1)
                     /\ newlines(client.fp[i]) = 1

\* C32: the values the calls of conn_read_line returned, in their order,
\* are a prefix of the stream, and when a call returns None at the end of
\* the stream they are the whole stream.
C32_Lossless ==
    served.op = "read"
        => /\ join(client.fp) = take(served.reply, len(join(client.fp)))
           /\ client.pc = "returned" => join(client.fp) = served.reply

\* the substitution applied to every character of a string
substituted(s) == [i \in 1..Len(s) |-> scramble_shifts[s[i] + 1]]

\* C39: what scramble_password returns is the scheme byte 'A' followed by
\* one substituted character for each character of the password; the table
\* of 256 entries is a permutation of 0..255 and its own inverse, so that
\* two passwords that differ give strings that differ and the substitution
\* of the substituted characters is the password.
C39_ScrambleIsInvolution ==
    /\ Len(scramble_shifts) = 256
    /\ {scramble_shifts[n] : n \in 1..256} = 0..255
    /\ \A n \in 0..255 : scramble_shifts[scramble_shifts[n + 1] + 1] = n
    /\ served.op = "auth"
          => \A i \in 1..Len(client.result) :
                client.result[i].raised = ""
                    => /\ Len(client.result[i].value) = Len(client.fp[i]) + 1
                       /\ Head(client.result[i].value) = SchemeA
                       /\ Tail(client.result[i].value) = substituted(client.fp[i])
                       /\ substituted(Tail(client.result[i].value)) = client.fp[i]
                       /\ \A j \in 1..Len(client.result) :
                             (client.result[j].raised = ""
                                  /\ client.fp[j] # client.fp[i])
                                 => client.result[j].value # client.result[i].value

\* two passwords of two characters that differ in the second one have been
\* scrambled
C39_Witness ==
    /\ served.op = "auth"
    /\ Len(client.result) = 2
    /\ client.result[1].raised = "" /\ client.result[2].raised = ""
    /\ Len(client.fp[1]) = 2 /\ Len(client.fp[2]) = 2
    /\ client.fp[1][1] = client.fp[2][1]
    /\ client.fp[1][2] # client.fp[2][2]

====
